---- MODULE Spec2Model ----
(***************************************************************************)
(* TxRequestTracker (txrequest.h / txrequest.cpp): the transaction-request *)
(* scheduler.  The tracker is one multi-index container of announcement    *)
(* entries with three orderings (ByPeer, ByTxHash, ByTime), a per-peer     *)
(* statistics map and a sequence counter.  Every public operation is one   *)
(* action; the private helpers are operators on the container.             *)
(***************************************************************************)
EXTENDS Integers, Sequences, FiniteSets, TLC

\* ----------------------------------------------------------------------
\* Bounds of the model
\* ----------------------------------------------------------------------
\* Peers are 1..MaxPeer (uint64_t peer ids).
MaxPeer == 2
\* Transaction hashes are 1..MaxTxHash (uint256, ordered as integers).
MaxTxHash == 2
\* Time points (reqtime, exptime, now) are 0..MaxTime microseconds.
MaxTime == 1
\* ReceivedInv stops creating entries once m_sequence reaches MaxSequence.
MaxSequence == 2
\* The priority salt (m_k0, m_k1) is drawn from 0..MaxSalt; 0 is the
\* deterministic tracker.
MaxSalt == 0
\* Width of the keyed hash in bits (64 in the program): the priority has
\* HashBits bits, its top bit is !preferred, the low HashBits-1 bits are the
\* hash shifted right by one.
HashBits == 3

Peers == 1..MaxPeer
TxHashes == 1..MaxTxHash
\* GenTxid: the hash and its flavor.  Hash 1 is announced as txid and as
\* wtxid (a transaction without witness has txid = wtxid), the others as
\* wtxid only.
Gtxids ==
    {g \in [m_is_wtxid : BOOLEAN, m_hash : TxHashes] : g.m_is_wtxid \/ g.m_hash = 1}
Times == 0..MaxTime
Salts == 0..MaxSalt

\* ----------------------------------------------------------------------
\* enum class State
\* ----------------------------------------------------------------------
CANDIDATE_DELAYED == 0
CANDIDATE_BEST == 1
REQUESTED == 2
CANDIDATE_READY == 3
COMPLETED == 4
TOO_LARGE == 5

TXHASHINFO_NO_MORE_PREFERRED_FIRST == 1
TXHASHINFO_NO_MORE_NONPREFERRED_FIRST == 2

\* Bitwise OR and AND of two 2-bit flag sets (uint8_t m_per_txhash : 2).
BitOr(a, b) ==
    (IF a % 2 = 1 \/ b % 2 = 1 THEN 1 ELSE 0)
    + (IF a \div 2 = 1 \/ b \div 2 = 1 THEN 2 ELSE 0)

BitAnd(a, b) ==
    (IF a % 2 = 1 /\ b % 2 = 1 THEN 1 ELSE 0)
    + (IF a \div 2 = 1 /\ b \div 2 = 1 THEN 2 ELSE 0)

VARIABLES
    m_index,     \* the entries, in ByTxHash order
    m_bytime,    \* the ByTime order: the entries' m_sequence numbers
    m_peerinfo,  \* peer -> [m_total, m_requested], rows only for tracked peers
    m_sequence,  \* the next sequence number
    m_k0,        \* the salt of m_computer
    aborted,     \* an assert failed: the process is gone
    m_local_salts, \* TxReconciliationTracker::Impl: peer -> local salt
    m_states,      \* TxReconciliationTracker::Impl: peer -> ReconciliationState
    m_queue,       \* TxReconciliationTracker::Impl: peers we initiate to
    m_next_recon_request, \* TxReconciliationTracker::Impl: microseconds
    m_free_chunks,     \* MemoryResource: the free list, head first
    m_allocated_blocks,          \* MemoryResource: the blocks' addresses
    m_chunk_size_bytes,          \* MemoryResource: 0 until the first Allocate(1)
    m_block_size_bytes,          \* MemoryResource: the configured block size
    m_untouched_memory_iterator, \* MemoryResource: next untouched chunk
    m_untouched_memory_end,      \* MemoryResource: end of the current block
    heap_end,      \* the address the next ::operator new returns
    live           \* the caller's allocations: [p, T, n]

allocator_vars ==
    <<m_free_chunks, m_allocated_blocks, m_chunk_size_bytes, m_block_size_bytes,
      m_untouched_memory_iterator, m_untouched_memory_end, heap_end, live>>

vars == <<m_index, m_bytime, m_peerinfo, m_sequence, m_k0, aborted,
          m_local_salts, m_states, m_queue, m_next_recon_request, allocator_vars>>

\* ----------------------------------------------------------------------
\* PriorityComputer
\* ----------------------------------------------------------------------
\* CSipHasher(k0, k1).Write(txhash).Write(peer).Finalize(): a keyed hash of
\* HashBits bits.  Two peers of one txhash may collide after the shift.
SipHash(k0, txhash, peer) ==
    ((k0 + 1) * (3 * peer + 5 * txhash) + 2 * k0 * peer * txhash) % (2 ^ HashBits)

\* A PriorityComputer whose top bit is preferred instead of !preferred.
PriorityComputer_PreferredHigh(txhash, peer, preferred, first) ==
    (IF ~first THEN SipHash(m_k0, txhash, peer) \div 2 ELSE 0)
        + (IF preferred THEN 2 ^ (HashBits - 1) ELSE 0)

PriorityComputer(txhash, peer, preferred, first) ==
    LET low_bits == IF ~first THEN SipHash(m_k0, txhash, peer) \div 2 ELSE 0
    IN  low_bits + (IF ~preferred THEN 2 ^ (HashBits - 1) ELSE 0)

\* ----------------------------------------------------------------------
\* struct Entry
\* ----------------------------------------------------------------------
GetState(e) == e.m_state
IsSelected(e) == GetState(e) = CANDIDATE_BEST \/ GetState(e) = REQUESTED
IsWaiting(e) == GetState(e) = REQUESTED \/ GetState(e) = CANDIDATE_DELAYED
IsSelectable(e) == GetState(e) = CANDIDATE_READY \/ GetState(e) = CANDIDATE_BEST

NewEntry(txhash, is_wtxid, peer, preferred, reqtime, sequence, first) ==
    [m_txhash |-> txhash, m_time |-> reqtime, m_peer |-> peer,
     m_sequence |-> sequence, m_preferred |-> preferred, m_is_wtxid |-> is_wtxid,
     m_first |-> first, m_state |-> CANDIDATE_DELAYED, m_per_txhash |-> 0]

ComputePriority(e) == PriorityComputer(e.m_txhash, e.m_peer, e.m_preferred, e.m_first)

ExtractPeer(e) ==
    <<e.m_peer, IF GetState(e) = CANDIDATE_BEST THEN 1 ELSE 0, e.m_txhash>>

ExtractTxid(e) ==
    <<e.m_txhash, GetState(e),
      IF GetState(e) = CANDIDATE_READY THEN ComputePriority(e) ELSE 0>>

ExtractTime(e) ==
    <<IF IsWaiting(e) THEN 0 ELSE IF IsSelectable(e) THEN 2 ELSE 1, e.m_time>>

\* std::less on the key tuples: lexicographic.
RECURSIVE KeyLess(_, _)
KeyLess(a, b) ==
    IF Len(a) = 0 THEN FALSE
    ELSE IF Head(a) # Head(b) THEN Head(a) < Head(b)
    ELSE KeyLess(Tail(a), Tail(b))

\* ----------------------------------------------------------------------
\* boost::multi_index ordered indices, as sequences
\* ----------------------------------------------------------------------
RemoveAt(s, i) == SubSeq(s, 1, i - 1) \o SubSeq(s, i + 1, Len(s))
InsertAt(s, i, x) == SubSeq(s, 1, i - 1) \o <<x>> \o SubSeq(s, i, Len(s))

\* lower_bound: the first position whose key is not less than k (Len+1: end()).
LowerBound(keys, k) == 1 + Cardinality({i \in 1..Len(keys) : KeyLess(keys[i], k)})

\* link_point of an ordered_non_unique index: after every key not greater than k.
LinkPoint(keys, k) == 1 + Cardinality({i \in 1..Len(keys) : ~KeyLess(k, keys[i])})

\* in_place of an ordered_non_unique index: the modified element stays where
\* it is when its neighbours still bracket its new key.
InPlace(keys, i) ==
    /\ (i = 1 \/ ~KeyLess(keys[i], keys[i - 1]))
    /\ (i = Len(keys) \/ ~KeyLess(keys[i + 1], keys[i]))

\* modify_ of an ordered_non_unique index: the element at position i of s
\* (whose key changed) is unlinked and linked again unless it is in place.
Relink(s, keys, i) ==
    IF InPlace(keys, i) THEN s
    ELSE LET s1 == RemoveAt(s, i)
             k1 == RemoveAt(keys, i)
         IN  InsertAt(s1, LinkPoint(k1, keys[i]), s[i])

TxKeys(tx) == [i \in 1..Len(tx) |-> ExtractTxid(tx[i])]

\* The position of the entry with sequence number id in the ByTxHash order
\* (m_index.project<ByTxHash>(it)).
PosOf(tx, id) == CHOOSE i \in 1..Len(tx) : tx[i].m_sequence = id

EntryOf(tx, id) == tx[PosOf(tx, id)]

TimeKeys(tx, tm) == [i \in 1..Len(tm) |-> ExtractTime(EntryOf(tx, tm[i]))]

TimePosOf(tm, id) == CHOOSE i \in 1..Len(tm) : tm[i] = id

\* The container and the peer map, threaded through the helpers.
Container(tx, tm, pi) == [tx |-> tx, tm |-> tm, pi |-> pi]

\* ----------------------------------------------------------------------
\* m_peerinfo
\* ----------------------------------------------------------------------
PeerRequestedAdd(pi, peer, d) ==
    [pi EXCEPT ![peer].m_requested = @ + d]

\* --m_total that keeps the row at 0.
PeerTotalDec_KeepRow(pi, peer) == [pi EXCEPT ![peer].m_total = @ - 1]

\* --m_total, erasing the row at 0.
PeerTotalDec(pi, peer) ==
    IF pi[peer].m_total = 1
    THEN [p \in DOMAIN pi \ {peer} |-> pi[p]]
    ELSE [pi EXCEPT ![peer].m_total = @ - 1]

\* ++m_peerinfo[peer].m_total, creating the row.
PeerTotalInc(pi, peer) ==
    IF peer \in DOMAIN pi
    THEN [pi EXCEPT ![peer].m_total = @ + 1]
    ELSE [p \in DOMAIN pi \cup {peer} |->
            IF p = peer THEN [m_total |-> 1, m_requested |-> 0] ELSE pi[p]]

\* Propagate the per-txhash flags of position i to its predecessor, if that
\* belongs to the same txhash.
PushFlags(tx, i) ==
    IF i > 1 /\ tx[i].m_txhash = tx[i - 1].m_txhash
    THEN [tx EXCEPT ![i - 1].m_per_txhash = BitOr(@, tx[i].m_per_txhash)]
    ELSE tx

\* Propagate the per-txhash flags of the predecessor to position i.
PullFlags(tx, i) ==
    IF i > 1 /\ tx[i].m_txhash = tx[i - 1].m_txhash
    THEN [tx EXCEPT ![i].m_per_txhash = BitOr(@, tx[i - 1].m_per_txhash)]
    ELSE tx

\* ----------------------------------------------------------------------
\* Erase and Modify: the wrappers that keep m_peerinfo and m_per_txhash
\* ----------------------------------------------------------------------
\* Erase without the propagation of the flags to the predecessor.
Erase_NoPropagate(c, id) ==
    LET i == PosOf(c.tx, id)
        e == c.tx[i]
        pi1 == PeerRequestedAdd(c.pi, e.m_peer,
                                IF GetState(e) = REQUESTED THEN -1 ELSE 0)
        pi2 == PeerTotalDec(pi1, e.m_peer)
    IN  Container(RemoveAt(c.tx, i), RemoveAt(c.tm, TimePosOf(c.tm, id)), pi2)

\* Erase<Tag>(it): the entry with sequence number id leaves every index.
Erase(c, id) ==
    LET i == PosOf(c.tx, id)
        e == c.tx[i]
        pi1 == PeerRequestedAdd(c.pi, e.m_peer,
                                IF GetState(e) = REQUESTED THEN -1 ELSE 0)
        pi2 == PeerTotalDec(pi1, e.m_peer)
        tx1 == PushFlags(c.tx, i)
    IN  Container(RemoveAt(tx1, i), RemoveAt(c.tm, TimePosOf(c.tm, id)), pi2)

\* Modify<Tag>(it, modifier) with a modifier that sets the state and the time.
Modify(c, id, state, time) ==
    LET i == PosOf(c.tx, id)
        e == c.tx[i]
        pi1 == PeerRequestedAdd(c.pi, e.m_peer,
                                IF GetState(e) = REQUESTED THEN -1 ELSE 0)
        tx1 == PushFlags(c.tx, i)
        tx2 == [tx1 EXCEPT ![i].m_state = state, ![i].m_time = time]
        tx3 == Relink(tx2, TxKeys(tx2), i)
        tm3 == Relink(c.tm, TimeKeys(tx2, c.tm), TimePosOf(c.tm, id))
        tx4 == PullFlags(tx3, PosOf(tx3, id))
        pi2 == PeerRequestedAdd(pi1, e.m_peer,
                                IF state = REQUESTED THEN 1 ELSE 0)
    IN  Container(tx4, tm3, pi2)

SetState(c, id, state) == Modify(c, id, state, EntryOf(c.tx, id).m_time)

\* ----------------------------------------------------------------------
\* The state-machine helpers
\* ----------------------------------------------------------------------
\* PromoteCandidateNew with the comparison against the existing
\* CANDIDATE_BEST left out: the promoted entry is always made CANDIDATE_BEST.
PromoteCandidateNew_AlwaysBest(c, id) ==
    SetState(SetState(c, id, CANDIDATE_READY), id, CANDIDATE_BEST)

\* PromoteCandidateNew that never displaces an existing CANDIDATE_BEST.
PromoteCandidateNew_KeepOld(c, id) ==
    LET c1 == SetState(c, id, CANDIDATE_READY)
        i == PosOf(c1.tx, id)
    IN  IF i = 1 \/ c1.tx[i - 1].m_txhash # c1.tx[i].m_txhash
              \/ GetState(c1.tx[i - 1]) = CANDIDATE_DELAYED
        THEN SetState(c1, id, CANDIDATE_BEST)
        ELSE c1

PromoteCandidateNew(c, id) ==
    LET c1 == SetState(c, id, CANDIDATE_READY)
        i == PosOf(c1.tx, id)
        it == c1.tx[i]
    IN  IF i = 1 \/ c1.tx[i - 1].m_txhash # it.m_txhash
              \/ GetState(c1.tx[i - 1]) = CANDIDATE_DELAYED
        THEN SetState(c1, id, CANDIDATE_BEST)
        ELSE IF GetState(c1.tx[i - 1]) = CANDIDATE_BEST
        THEN LET priority_old == ComputePriority(c1.tx[i - 1])
                 priority_new == ComputePriority(it)
             IN  IF priority_new < priority_old
                 THEN LET new_ready_it == c1.tx[i - 1].m_sequence
                          c2 == SetState(c1, new_ready_it, CANDIDATE_READY)
                      IN  SetState(c2, id, CANDIDATE_BEST)
                 ELSE c1
        ELSE c1

\* ChangeAndReselect without the reselection of the next CANDIDATE_READY.
ChangeAndReselect_NoReselect(c, id, new_state) == SetState(c, id, new_state)

ChangeAndReselect(c, id, new_state) ==
    LET i == PosOf(c.tx, id)
        it == c.tx[i]
        c1 == IF IsSelected(it)
                 /\ i < Len(c.tx)
                 /\ c.tx[i + 1].m_txhash = it.m_txhash
                 /\ GetState(c.tx[i + 1]) = CANDIDATE_READY
              THEN SetState(c, c.tx[i + 1].m_sequence, CANDIDATE_BEST)
              ELSE c
    IN  SetState(c1, id, new_state)

\* The do-while of MakeCompleted: erase position i, then every following
\* entry of the same txhash.
RECURSIVE EraseGroupFrom(_, _, _)
EraseGroupFrom(c, i, txhash) ==
    LET c1 == Erase(c, c.tx[i].m_sequence)
    IN  IF i <= Len(c1.tx) /\ c1.tx[i].m_txhash = txhash
        THEN EraseGroupFrom(c1, i, txhash)
        ELSE c1

\* MakeCompleted without the deletion of a txhash left with COMPLETED
\* entries only.
MakeCompleted_NoGroupDelete(c, id) ==
    IF GetState(EntryOf(c.tx, id)) = COMPLETED THEN [c |-> c, exists |-> TRUE]
    ELSE [c |-> ChangeAndReselect(c, id, COMPLETED), exists |-> TRUE]

\* MakeCompleted that puts the entry back among the candidates.
MakeCompleted_Retry(c, id) ==
    IF GetState(EntryOf(c.tx, id)) = COMPLETED THEN [c |-> c, exists |-> TRUE]
    ELSE [c |-> ChangeAndReselect(c, id, CANDIDATE_DELAYED), exists |-> TRUE]

\* MakeCompleted that erases the entry alone instead of keeping it COMPLETED.
MakeCompleted_EraseOnly(c, id) ==
    IF GetState(EntryOf(c.tx, id)) = COMPLETED THEN [c |-> c, exists |-> TRUE]
    ELSE [c |-> Erase(ChangeAndReselect(c, id, COMPLETED), id), exists |-> FALSE]

\* MakeCompleted(it): [c: the container afterwards, exists: the return value].
MakeCompleted(c, id) ==
    LET i == PosOf(c.tx, id)
        it == c.tx[i]
    IN  IF GetState(it) = COMPLETED THEN [c |-> c, exists |-> TRUE]
        ELSE IF /\ (i = 1 \/ c.tx[i - 1].m_txhash # it.m_txhash)
                /\ (\/ i = Len(c.tx)
                    \/ c.tx[i + 1].m_txhash # it.m_txhash
                    \/ GetState(c.tx[i + 1]) = COMPLETED)
        THEN [c |-> EraseGroupFrom(c, i, it.m_txhash), exists |-> FALSE]
        ELSE [c |-> ChangeAndReselect(c, id, COMPLETED), exists |-> TRUE]

\* The first loop of SetTimePoint.
RECURSIVE SetTimePointForward(_, _)
SetTimePointForward(c, now) ==
    IF Len(c.tx) = 0 THEN c
    ELSE LET it == EntryOf(c.tx, c.tm[1])
         IN  IF GetState(it) = CANDIDATE_DELAYED /\ it.m_time <= now
             THEN SetTimePointForward(PromoteCandidateNew(c, it.m_sequence), now)
             ELSE IF GetState(it) = REQUESTED /\ it.m_time <= now
             THEN SetTimePointForward(MakeCompleted(c, it.m_sequence).c, now)
             ELSE c

\* The second loop of SetTimePoint.
RECURSIVE SetTimePointBackward(_, _)
SetTimePointBackward(c, now) ==
    IF Len(c.tx) = 0 THEN c
    ELSE LET it == EntryOf(c.tx, c.tm[Len(c.tm)])
         IN  IF IsSelectable(it) /\ it.m_time > now
             THEN SetTimePointBackward(
                      ChangeAndReselect(c, it.m_sequence, CANDIDATE_DELAYED), now)
             ELSE c

\* SetTimePoint without the loop for a clock that went backwards.
SetTimePoint_ForwardOnly(c, now) == SetTimePointForward(c, now)

\* SetTimePoint whose first loop compares with < instead of <=.
RECURSIVE SetTimePointForward_Exclusive(_, _)
SetTimePointForward_Exclusive(c, now) ==
    IF Len(c.tx) = 0 THEN c
    ELSE LET it == EntryOf(c.tx, c.tm[1])
         IN  IF GetState(it) = CANDIDATE_DELAYED /\ it.m_time < now
             THEN SetTimePointForward_Exclusive(PromoteCandidateNew(c, it.m_sequence), now)
             ELSE IF GetState(it) = REQUESTED /\ it.m_time < now
             THEN SetTimePointForward_Exclusive(MakeCompleted(c, it.m_sequence).c, now)
             ELSE c

SetTimePoint_Exclusive(c, now) ==
    SetTimePointBackward(SetTimePointForward_Exclusive(c, now), now)

\* SetTimePoint whose first loop handles one entry only.
SetTimePoint_OneStep(c, now) ==
    IF Len(c.tx) = 0 THEN c
    ELSE LET it == EntryOf(c.tx, c.tm[1])
             c1 == IF GetState(it) = CANDIDATE_DELAYED /\ it.m_time <= now
                   THEN PromoteCandidateNew(c, it.m_sequence)
                   ELSE IF GetState(it) = REQUESTED /\ it.m_time <= now
                   THEN MakeCompleted(c, it.m_sequence).c
                   ELSE c
         IN  SetTimePointBackward(c1, now)

SetTimePoint(c, now) == SetTimePointBackward(SetTimePointForward(c, now), now)

\* ----------------------------------------------------------------------
\* The public operations, as functions of the container
\* ----------------------------------------------------------------------
\* A count that looks under the non-CANDIDATE_BEST key only, whatever best is.
CountByPeer_IgnoreBest(tx, peer, best, txhash) ==
    Cardinality({i \in 1..Len(tx) : ExtractPeer(tx[i]) = <<peer, 0, txhash>>})

\* m_index.get<ByPeer>().count(EntryPeer{peer, best, txhash})
CountByPeer(tx, peer, best, txhash) ==
    Cardinality({i \in 1..Len(tx) :
                    ExtractPeer(tx[i]) = <<peer, IF best THEN 1 ELSE 0, txhash>>})

\* m_index.get<ByPeer>().find(EntryPeer{peer, best, txhash}): the sequence
\* number of the entry found, -1 for end().
FindByPeer(tx, peer, best, txhash) ==
    LET hit == {i \in 1..Len(tx) :
                   ExtractPeer(tx[i]) = <<peer, IF best THEN 1 ELSE 0, txhash>>}
    IN  IF hit = {} THEN -1 ELSE tx[CHOOSE i \in hit : TRUE].m_sequence

\* ReadPerTxhash without the comparison of it_last->m_txhash: the flags of
\* the entry before the lower bound are taken, whatever its txhash.
ReadPerTxhash_AnyTxhash(tx, txhash, garbage) ==
    IF Len(tx) = 0 THEN 0
    ELSE LET lb == LowerBound(TxKeys(tx), <<txhash, TOO_LARGE, 0>>)
         IN  IF lb = 1 THEN garbage ELSE tx[lb - 1].m_per_txhash

\* The per-txhash flags ReceivedInv reads: those of the last entry of the
\* txhash.  it_last is std::prev(lower_bound({txhash, TOO_LARGE, 0})); when
\* the container is not empty and every entry sorts after the txhash,
\* lower_bound is begin() and std::prev(begin()) is undefined: the entry read
\* is no entry of the container, and garbage stands for the flags it yields
\* (0 when its txhash does not compare equal).
ReadPerTxhash(tx, txhash, garbage) ==
    IF Len(tx) = 0 THEN 0
    ELSE LET lb == LowerBound(TxKeys(tx), <<txhash, TOO_LARGE, 0>>)
         IN  IF lb = 1 THEN garbage
             ELSE IF tx[lb - 1].m_txhash = txhash THEN tx[lb - 1].m_per_txhash
             ELSE 0

\* The values the undefined read of ReadPerTxhash can yield.
GarbageFlags(tx, txhash) ==
    IF Len(tx) > 0 /\ LowerBound(TxKeys(tx), <<txhash, TOO_LARGE, 0>>) = 1
    THEN 0..3 ELSE {0}

\* The first-marker test with the two flags taken for each other.
FirstMarker_SwappedFlags(per_txhash, preferred, overloaded) ==
    /\ ~overloaded
    /\ \/ preferred /\ BitAnd(per_txhash, TXHASHINFO_NO_MORE_NONPREFERRED_FIRST) = 0
       \/ ~preferred /\ BitAnd(per_txhash, TXHASHINFO_NO_MORE_PREFERRED_FIRST) = 0

\* The first-marker test without the test of overloaded.
FirstMarker_IgnoreOverloaded(per_txhash, preferred, overloaded) ==
    \/ preferred /\ BitAnd(per_txhash, TXHASHINFO_NO_MORE_PREFERRED_FIRST) = 0
    \/ ~preferred /\ BitAnd(per_txhash, TXHASHINFO_NO_MORE_NONPREFERRED_FIRST) = 0

\* Whether the new announcement gets the first marker.
FirstMarker(per_txhash, preferred, overloaded) ==
    /\ ~overloaded
    /\ \/ preferred /\ BitAnd(per_txhash, TXHASHINFO_NO_MORE_PREFERRED_FIRST) = 0
       \/ ~preferred /\ BitAnd(per_txhash, TXHASHINFO_NO_MORE_NONPREFERRED_FIRST) = 0

\* The emplace and what follows it: the new entry is linked into ByTxHash
\* and ByTime, and the flags are stored on the last entry of the txhash.
Emplace(c, e, per_txhash) ==
    LET i == LinkPoint(TxKeys(c.tx), ExtractTxid(e))
        tx1 == InsertAt(c.tx, i, e)
        tm1 == InsertAt(c.tm, LinkPoint(TimeKeys(c.tx, c.tm), ExtractTime(e)),
                        e.m_sequence)
        \* the last entry of the txhash: the new one when there was none
        \* before or when it_last now directly precedes it
        last == CHOOSE j \in i..Len(tx1) :
                    /\ tx1[j].m_txhash = e.m_txhash
                    /\ (j = Len(tx1) \/ tx1[j + 1].m_txhash # e.m_txhash)
        tx2 == [tx1 EXCEPT ![last].m_per_txhash = BitOr(@, per_txhash)]
    IN  Container(tx2, tm1, PeerTotalInc(c.pi, e.m_peer))

\* ReceivedInv with ++m_sequence placed before the test of the emplace.
ReceivedInv_SequenceFirst(c, seq, peer, gtxid, preferred, overloaded, reqtime, garbage) ==
    IF CountByPeer(c.tx, peer, TRUE, gtxid.m_hash) > 0
    THEN [c |-> c, seq |-> seq]
    ELSE LET read == ReadPerTxhash(c.tx, gtxid.m_hash, garbage)
             first == FirstMarker(read, preferred, overloaded)
             per_txhash ==
                 IF first
                 THEN BitOr(read,
                            IF preferred
                            THEN TXHASHINFO_NO_MORE_PREFERRED_FIRST
                            ELSE TXHASHINFO_NO_MORE_NONPREFERRED_FIRST)
                 ELSE read
             e == NewEntry(gtxid.m_hash, gtxid.m_is_wtxid, peer, preferred,
                           reqtime, seq, first)
         IN  IF CountByPeer(c.tx, peer, FALSE, gtxid.m_hash) > 0
             THEN [c |-> c, seq |-> seq + 1]
             ELSE [c |-> Emplace(c, e, per_txhash), seq |-> seq + 1]

\* ReceivedInv: [c: the container afterwards, seq: m_sequence afterwards].
\* The two bail-outs are the count of a CANDIDATE_BEST entry and the emplace
\* that the unique ByPeer index refuses.
ReceivedInv(c, seq, peer, gtxid, preferred, overloaded, reqtime, garbage) ==
    IF CountByPeer(c.tx, peer, TRUE, gtxid.m_hash) > 0
    THEN [c |-> c, seq |-> seq]
    ELSE LET read == ReadPerTxhash(c.tx, gtxid.m_hash, garbage)
             first == FirstMarker(read, preferred, overloaded)
             per_txhash ==
                 IF first
                 THEN BitOr(read,
                            IF preferred
                            THEN TXHASHINFO_NO_MORE_PREFERRED_FIRST
                            ELSE TXHASHINFO_NO_MORE_NONPREFERRED_FIRST)
                 ELSE read
             e == NewEntry(gtxid.m_hash, gtxid.m_is_wtxid, peer, preferred,
                           reqtime, seq, first)
         IN  IF CountByPeer(c.tx, peer, FALSE, gtxid.m_hash) > 0
             THEN [c |-> c, seq |-> seq]
             ELSE [c |-> Emplace(c, e, per_txhash), seq |-> seq + 1]

\* The entries of peer, as sequence numbers.
IdsOfPeer(tx, peer) == {tx[i].m_sequence : i \in {j \in 1..Len(tx) : tx[j].m_peer = peer}}

\* index.lower_bound(EntryPeer{peer, false, 0}) when it belongs to peer: the
\* entry of peer with the least ByPeer key, -1 for none.
FirstOfPeer(tx, peer) ==
    IF IdsOfPeer(tx, peer) = {} THEN -1
    ELSE CHOOSE id \in IdsOfPeer(tx, peer) :
            \A o \in IdsOfPeer(tx, peer) :
                ~KeyLess(ExtractPeer(EntryOf(tx, o)), ExtractPeer(EntryOf(tx, id)))

\* std::next(it) in ByPeer when it belongs to the same peer, -1 otherwise.
NextOfPeer(tx, id) ==
    LET k == ExtractPeer(EntryOf(tx, id))
        after == {o \in IdsOfPeer(tx, EntryOf(tx, id).m_peer) :
                     KeyLess(k, ExtractPeer(EntryOf(tx, o)))}
    IN  IF after = {} THEN -1
        ELSE CHOOSE o \in after :
                \A q \in after :
                    ~KeyLess(ExtractPeer(EntryOf(tx, q)), ExtractPeer(EntryOf(tx, o)))

RECURSIVE DeletedPeerLoop(_, _)
DeletedPeerLoop(c, id) ==
    IF id = -1 THEN c
    ELSE LET it_next == NextOfPeer(c.tx, id)
             r == MakeCompleted(c, id)
             c1 == IF r.exists THEN Erase(r.c, id) ELSE r.c
         IN  DeletedPeerLoop(c1, it_next)

\* Variant that handles only the first announcement of the peer.
DeletedPeer_FirstOnly(c, peer) ==
    LET id == FirstOfPeer(c.tx, peer)
        r == MakeCompleted(c, id)
    IN  IF id = -1 THEN c
        ELSE IF r.exists THEN Erase(r.c, id) ELSE r.c

DeletedPeer(c, peer) == DeletedPeerLoop(c, FirstOfPeer(c.tx, peer))

RECURSIVE AlreadyHaveTxLoop(_, _, _)
AlreadyHaveTxLoop(c, i, txhash) ==
    IF i <= Len(c.tx) /\ c.tx[i].m_txhash = txhash
    THEN AlreadyHaveTxLoop(Erase(c, c.tx[i].m_sequence), i, txhash)
    ELSE c

\* AlreadyHaveTx whose loop runs to the end of the index.
RECURSIVE AlreadyHaveTxLoop_ToEnd(_, _)
AlreadyHaveTxLoop_ToEnd(c, i) ==
    IF i <= Len(c.tx)
    THEN AlreadyHaveTxLoop_ToEnd(Erase(c, c.tx[i].m_sequence), i)
    ELSE c

AlreadyHaveTx_ToEnd(c, gtxid) ==
    AlreadyHaveTxLoop_ToEnd(c,
        LowerBound(TxKeys(c.tx), <<gtxid.m_hash, CANDIDATE_DELAYED, 0>>))

\* The loop of AlreadyHaveTx started at the COMPLETED entries of the txhash.
AlreadyHaveTx_FromCompleted(c, gtxid) ==
    AlreadyHaveTxLoop(c,
        LowerBound(TxKeys(c.tx), <<gtxid.m_hash, COMPLETED, 0>>),
        gtxid.m_hash)

AlreadyHaveTx(c, gtxid) ==
    AlreadyHaveTxLoop(c,
        LowerBound(TxKeys(c.tx), <<gtxid.m_hash, CANDIDATE_DELAYED, 0>>),
        gtxid.m_hash)

\* Variant that answers only an announcement of the flavor of gtxid.
ReceivedResponse_SameFlavor(c, peer, gtxid) ==
    LET it0 == FindByPeer(c.tx, peer, FALSE, gtxid.m_hash)
        it == IF it0 = -1 THEN FindByPeer(c.tx, peer, TRUE, gtxid.m_hash) ELSE it0
    IN  IF it # -1 /\ EntryOf(c.tx, it).m_is_wtxid = gtxid.m_is_wtxid
        THEN MakeCompleted(c, it).c ELSE c

ReceivedResponse(c, peer, gtxid) ==
    LET it0 == FindByPeer(c.tx, peer, FALSE, gtxid.m_hash)
        it == IF it0 = -1 THEN FindByPeer(c.tx, peer, TRUE, gtxid.m_hash) ELSE it0
    IN  IF it # -1 THEN MakeCompleted(c, it).c ELSE c

\* Only the flag of the preferred class is set.
MarkNoMoreFirst_PreferredOnly(tx, txhash) ==
    LET it_last == LowerBound(TxKeys(tx), <<txhash, TOO_LARGE, 0>>) - 1
    IN  [tx EXCEPT ![it_last].m_per_txhash =
            BitOr(@, TXHASHINFO_NO_MORE_PREFERRED_FIRST)]

\* The last entry of txhash gets both NO_MORE flags.
MarkNoMoreFirst(tx, txhash) ==
    LET it_last == LowerBound(TxKeys(tx), <<txhash, TOO_LARGE, 0>>) - 1
    IN  [tx EXCEPT ![it_last].m_per_txhash =
            BitOr(@, BitOr(TXHASHINFO_NO_MORE_PREFERRED_FIRST,
                           TXHASHINFO_NO_MORE_NONPREFERRED_FIRST))]

\* RequestedTx that looks the entry up under both ByPeer keys, as
\* ReceivedResponse does, and requests whatever it finds.
RequestedTx_AnyState(c, peer, gtxid, exptime) ==
    LET it0 == FindByPeer(c.tx, peer, FALSE, gtxid.m_hash)
        it == IF it0 = -1 THEN FindByPeer(c.tx, peer, TRUE, gtxid.m_hash) ELSE it0
    IN  IF it = -1
        THEN [c |-> c, aborted |-> TRUE]
        ELSE [c |-> Modify(c, it, REQUESTED, exptime), aborted |-> FALSE]

\* RequestedTx: [c: the container afterwards, aborted: an assert failed].
\* The entry found under {peer, true, txhash} is CANDIDATE_BEST by its key.
RequestedTx(c, peer, gtxid, exptime) ==
    LET it == FindByPeer(c.tx, peer, TRUE, gtxid.m_hash)
    IN  IF it = -1
        THEN [c |-> c, aborted |-> TRUE]
        ELSE LET c1 == Modify(c, it, REQUESTED, exptime)
             IN  [c |-> [c1 EXCEPT !.tx = MarkNoMoreFirst(c1.tx, gtxid.m_hash)],
                  aborted |-> FALSE]

\* std::sort of the (sequence, entry) pairs, then the GenTxid of each.
RECURSIVE SortedGtxids(_, _)
SortedGtxids(tx, ids) ==
    IF ids = {} THEN << >>
    ELSE LET lo == CHOOSE id \in ids : \A o \in ids : id <= o
             e == EntryOf(tx, lo)
         IN  <<[m_is_wtxid |-> e.m_is_wtxid, m_hash |-> e.m_txhash]>>
             \o SortedGtxids(tx, ids \ {lo})

\* A range that does not stop at the first entry that is not
\* CANDIDATE_BEST: the CANDIDATE_READY entries of peer are collected too.
Selected_Selectable(tx, peer) ==
    {tx[i].m_sequence : i \in {j \in 1..Len(tx) :
        tx[j].m_peer = peer /\ IsSelectable(tx[j])}}

\* The CANDIDATE_BEST entries of peer (the ByPeer range from {peer, true, 0}).
Selected(tx, peer) ==
    {tx[i].m_sequence : i \in {j \in 1..Len(tx) :
        tx[j].m_peer = peer /\ GetState(tx[j]) = CANDIDATE_BEST}}

\* GetRequestable without the std::sort: the entries come in the order of
\* the ByPeer range, which for one peer is the order of the txhashes.
GetRequestable_Unsorted(c, peer, now) ==
    LET c1 == SetTimePoint(c, now)
        at == {i \in 1..Len(c1.tx) :
                  c1.tx[i].m_peer = peer /\ GetState(c1.tx[i]) = CANDIDATE_BEST}
        nth(n) == CHOOSE i \in at : Cardinality({j \in at : j < i}) = n - 1
    IN  [c |-> c1,
         ret |-> [n \in 1..Cardinality(at) |->
                     [m_is_wtxid |-> c1.tx[nth(n)].m_is_wtxid,
                      m_hash |-> c1.tx[nth(n)].m_txhash]]]

\* GetRequestable: [c: the container afterwards, ret: the vector returned].
GetRequestable(c, peer, now) ==
    LET c1 == SetTimePoint(c, now)
    IN  [c |-> c1, ret |-> SortedGtxids(c1.tx, Selected(c1.tx, peer))]

\* ----------------------------------------------------------------------
\* The tracker: Init is TxRequestTracker(deterministic), one action per
\* public operation
\* ----------------------------------------------------------------------
TheContainer == Container(m_index, m_bytime, m_peerinfo)

\* The container c becomes the tracker's state.
Store(c) ==
    /\ m_index' = c.tx
    /\ m_bytime' = c.tm
    /\ m_peerinfo' = c.pi
    /\ UNCHANGED <<m_local_salts, m_states, m_queue, m_next_recon_request,
                   allocator_vars>>

\* The first heap address, nullptr being 0.
HeapStart == 16

\* size_t const m_block_size_bytes{262144}
DefaultBlockSize == 262144

\* MemoryResource(block_size_byte) and an untouched heap.
MemoryResourceInit(block_size_byte) ==
    /\ m_free_chunks = << >>
    /\ m_allocated_blocks = << >>
    /\ m_chunk_size_bytes = 0
    /\ m_block_size_bytes = block_size_byte
    /\ m_untouched_memory_iterator = 0
    /\ m_untouched_memory_end = 0
    /\ heap_end = HeapStart
    /\ live = {}

Init ==
    /\ m_index = << >>
    /\ m_bytime = << >>
    /\ m_peerinfo = << >>
    /\ m_sequence = 0
    /\ m_k0 \in Salts
    /\ aborted = FALSE
    /\ m_local_salts = << >>
    /\ m_states = << >>
    /\ m_queue = << >>
    /\ m_next_recon_request = 0
    /\ MemoryResourceInit(DefaultBlockSize)

CallReceivedInv ==
    /\ ~aborted
    /\ m_sequence < MaxSequence
    /\ \E peer \in Peers, gtxid \in Gtxids, preferred \in BOOLEAN,
          overloaded \in BOOLEAN, reqtime \in Times :
        \E garbage \in GarbageFlags(m_index, gtxid.m_hash) :
            LET r == ReceivedInv(TheContainer, m_sequence, peer, gtxid, preferred,
                                 overloaded, reqtime, garbage)
            IN  Store(r.c) /\ m_sequence' = r.seq
    /\ UNCHANGED <<m_k0, aborted>>

CallDeletedPeer ==
    /\ ~aborted
    /\ \E peer \in Peers : Store(DeletedPeer(TheContainer, peer))
    /\ UNCHANGED <<m_sequence, m_k0, aborted>>

CallAlreadyHaveTx ==
    /\ ~aborted
    /\ \E gtxid \in Gtxids : Store(AlreadyHaveTx(TheContainer, gtxid))
    /\ UNCHANGED <<m_sequence, m_k0, aborted>>

CallReceivedResponse ==
    /\ ~aborted
    /\ \E peer \in Peers, gtxid \in Gtxids :
        Store(ReceivedResponse(TheContainer, peer, gtxid))
    /\ UNCHANGED <<m_sequence, m_k0, aborted>>

CallRequestedTx ==
    /\ ~aborted
    /\ \E peer \in Peers, gtxid \in Gtxids, exptime \in Times :
        LET r == RequestedTx(TheContainer, peer, gtxid, exptime)
        IN  Store(r.c) /\ aborted' = r.aborted
    /\ UNCHANGED <<m_sequence, m_k0>>

CallGetRequestable ==
    /\ ~aborted
    /\ \E peer \in Peers, now \in Times :
        Store(GetRequestable(TheContainer, peer, now).c)
    /\ UNCHANGED <<m_sequence, m_k0, aborted>>

Next ==
    \/ CallReceivedInv
    \/ CallDeletedPeer
    \/ CallAlreadyHaveTx
    \/ CallReceivedResponse
    \/ CallRequestedTx
    \/ CallGetRequestable

Spec == Init /\ [][Next]_vars

\* ----------------------------------------------------------------------
\* Second specification: one transaction announced by up to MaxAnnouncers
\* peers, none of them overloaded, so that a txhash has a selected
\* announcement and several candidates behind it.  The operations are the
\* same operators.
\* ----------------------------------------------------------------------
MaxAnnouncers == 3

Announcers == 1..MaxAnnouncers

TheGtxid == [m_is_wtxid |-> TRUE, m_hash |-> 1]

OneReceivedInv ==
    /\ ~aborted
    /\ m_sequence < MaxAnnouncers
    /\ \E peer \in Announcers, preferred \in BOOLEAN, reqtime \in Times :
        \E garbage \in GarbageFlags(m_index, TheGtxid.m_hash) :
            LET r == ReceivedInv(TheContainer, m_sequence, peer, TheGtxid, preferred,
                                 FALSE, reqtime, garbage)
            IN  Store(r.c) /\ m_sequence' = r.seq
    /\ UNCHANGED <<m_k0, aborted>>

OneDeletedPeer ==
    /\ ~aborted
    /\ \E peer \in Announcers : Store(DeletedPeer(TheContainer, peer))
    /\ UNCHANGED <<m_sequence, m_k0, aborted>>

OneAlreadyHaveTx ==
    /\ ~aborted
    /\ Store(AlreadyHaveTx(TheContainer, TheGtxid))
    /\ UNCHANGED <<m_sequence, m_k0, aborted>>

OneReceivedResponse ==
    /\ ~aborted
    /\ \E peer \in Announcers : Store(ReceivedResponse(TheContainer, peer, TheGtxid))
    /\ UNCHANGED <<m_sequence, m_k0, aborted>>

OneRequestedTx ==
    /\ ~aborted
    /\ \E peer \in Announcers, exptime \in Times :
        LET r == RequestedTx(TheContainer, peer, TheGtxid, exptime)
        IN  Store(r.c) /\ aborted' = r.aborted
    /\ UNCHANGED <<m_sequence, m_k0>>

OneGetRequestable ==
    /\ ~aborted
    /\ \E peer \in Announcers, now \in Times :
        Store(GetRequestable(TheContainer, peer, now).c)
    /\ UNCHANGED <<m_sequence, m_k0, aborted>>

NextOneTx ==
    \/ OneReceivedInv
    \/ OneDeletedPeer
    \/ OneAlreadyHaveTx
    \/ OneReceivedResponse
    \/ OneRequestedTx
    \/ OneGetRequestable

SpecOneTx == Init /\ [][NextOneTx]_vars

\* ----------------------------------------------------------------------
\* Third specification: MaxHashWide transaction hashes, each announced as
\* wtxid, so that an announced txhash can sort before, between and after
\* the tracked ones.  The operations are the same operators.
\* ----------------------------------------------------------------------
MaxHashWide == 3

WideTxHashes == 1..MaxHashWide

WideGtxids == [m_is_wtxid : {TRUE}, m_hash : WideTxHashes]

WideReceivedInv ==
    /\ ~aborted
    /\ m_sequence < MaxSequence
    /\ \E peer \in Peers, gtxid \in WideGtxids, preferred \in BOOLEAN,
          overloaded \in BOOLEAN, reqtime \in Times :
        \E garbage \in GarbageFlags(m_index, gtxid.m_hash) :
            LET r == ReceivedInv(TheContainer, m_sequence, peer, gtxid, preferred,
                                 overloaded, reqtime, garbage)
            IN  Store(r.c) /\ m_sequence' = r.seq
    /\ UNCHANGED <<m_k0, aborted>>

WideDeletedPeer ==
    /\ ~aborted
    /\ \E peer \in Peers : Store(DeletedPeer(TheContainer, peer))
    /\ UNCHANGED <<m_sequence, m_k0, aborted>>

WideAlreadyHaveTx ==
    /\ ~aborted
    /\ \E gtxid \in WideGtxids : Store(AlreadyHaveTx(TheContainer, gtxid))
    /\ UNCHANGED <<m_sequence, m_k0, aborted>>

WideReceivedResponse ==
    /\ ~aborted
    /\ \E peer \in Peers, gtxid \in WideGtxids :
        Store(ReceivedResponse(TheContainer, peer, gtxid))
    /\ UNCHANGED <<m_sequence, m_k0, aborted>>

WideRequestedTx ==
    /\ ~aborted
    /\ \E peer \in Peers, gtxid \in WideGtxids, exptime \in Times :
        LET r == RequestedTx(TheContainer, peer, gtxid, exptime)
        IN  Store(r.c) /\ aborted' = r.aborted
    /\ UNCHANGED <<m_sequence, m_k0>>

WideGetRequestable ==
    /\ ~aborted
    /\ \E peer \in Peers, now \in Times :
        Store(GetRequestable(TheContainer, peer, now).c)
    /\ UNCHANGED <<m_sequence, m_k0, aborted>>

NextWide ==
    \/ WideReceivedInv
    \/ WideDeletedPeer
    \/ WideAlreadyHaveTx
    \/ WideReceivedResponse
    \/ WideRequestedTx
    \/ WideGetRequestable

SpecWide == Init /\ [][NextWide]_vars

\* ----------------------------------------------------------------------
\* Fourth specification: the caller that polls.  A poll of a peer is
\* GetRequestable(peer, now) followed by RequestedTx(peer, gtxid, exptime)
\* for every gtxid returned, each with an exptime of its own.  Besides the
\* polls there are only announcements.  A clock that grows without bound
\* passes every reqtime and exptime, all of which are at most MaxTime: the
\* polls with now = MaxTime stand for the polls from then on, and every
\* peer keeps being polled.
\* ----------------------------------------------------------------------
RECURSIVE RequestAll(_, _, _, _)
RequestAll(c, peer, ret, exptimes) ==
    IF ret = << >> THEN [c |-> c, aborted |-> FALSE]
    ELSE LET r == RequestedTx(c, peer, Head(ret), Head(exptimes))
         IN  IF r.aborted THEN r
             ELSE RequestAll(r.c, peer, Tail(ret), Tail(exptimes))

Poll(peer, now) ==
    /\ ~aborted
    /\ \E g \in {GetRequestable(TheContainer, peer, now)} :
        \E exptimes \in [1..Len(g.ret) -> Times] :
            \E r \in {RequestAll(g.c, peer, g.ret, exptimes)} :
                Store(r.c) /\ aborted' = r.aborted
    /\ UNCHANGED <<m_sequence, m_k0>>

CallPoll == \E peer \in Peers, now \in Times : Poll(peer, now)

NextDrain ==
    \/ CallReceivedInv
    \/ CallPoll

\* The poll of peer at now changes the state: the enabling condition of
\* <<Poll(peer, now)>>_vars as a state predicate.
PollChanges(peer, now) ==
    /\ ~aborted
    /\ \E g \in {GetRequestable(TheContainer, peer, now)} :
        \E exptimes \in [1..Len(g.ret) -> Times] :
            \E r \in {RequestAll(g.c, peer, g.ret, exptimes)} :
                r.c # TheContainer \/ r.aborted

\* Weak fairness of the poll of peer at now = MaxTime, written out with
\* PollChanges for the enabling condition: a poll that would change the
\* state is not put off for ever.
PollFair(peer) ==
    \/ []<>(~PollChanges(peer, MaxTime))
    \/ []<><<Poll(peer, MaxTime)>>_vars

SpecDrain ==
    /\ Init
    /\ [][NextDrain]_vars
    /\ \A peer \in Peers : PollFair(peer)

\* ----------------------------------------------------------------------
\* TxReconciliationTracker (txreconciliation.cpp): the registration of
\* peers for transaction reconciliation.  The operations are operators on
\* the record [salts, states, queue] of the three members of Impl.
\* ----------------------------------------------------------------------
\* Peers are NodeIds 0..MaxNodeId.
MaxNodeId == 2
\* Local and remote salts (uint64_t) are 0..MaxReconSalt.
MaxReconSalt == 1
\* Offered protocol versions (uint32_t) are 0..MaxVersion.
MaxVersion == 2

NodeIds == 0..MaxNodeId
ReconSalts == 0..MaxReconSalt
Versions == 0..MaxVersion

RECON_VERSION == 1

\* constexpr std::chrono::microseconds RECON_REQUEST_INTERVAL{8s}
RECON_REQUEST_INTERVAL == 8000000
\* std::chrono::seconds to std::chrono::microseconds
MicrosPerSecond == 1000000
\* The clock reads 0..MaxReconTime seconds.
MaxReconTime == 3
ReconTimes == 0..MaxReconTime
\* What m_next_recon_request holds after a division by zero.
NextGarbage == {0, RECON_REQUEST_INTERVAL}

\* enum Phase
NONE == 0
INIT_REQUESTED == 1

\* The two 64-bit words of the tagged hash of the salts in ascending order,
\* HashBits wide here.
ComputeSalt(local_salt, remote_salt) ==
    LET salt1 == IF local_salt > remote_salt THEN remote_salt ELSE local_salt
        salt2 == IF local_salt > remote_salt THEN local_salt ELSE remote_salt
    IN  <<(3 * salt1 + 5 * salt2 + 1) % (2 ^ HashBits),
          (5 * salt1 + 3 * salt2 + 2) % (2 ^ HashBits)>>

\* ReconciliationState(k0, k1, we_initiate) with its default members.
ReconciliationState(k0, k1, we_initiate) ==
    [m_k0 |-> k0, m_k1 |-> k1, m_we_initiate |-> we_initiate,
     m_wtxids |-> {}, m_phase |-> NONE]

\* std::unordered_map::emplace and erase.
MapEmplace(f, k, v) ==
    IF k \in DOMAIN f THEN f
    ELSE [x \in DOMAIN f \cup {k} |-> IF x = k THEN v ELSE f[x]]

MapErase(f, k) == [x \in DOMAIN f \ {k} |-> f[x]]

ReconContainer(salts, states, queue) ==
    [salts |-> salts, states |-> states, queue |-> queue]

\* PreRegisterPeer: [rc, aborted: assert(added) failed, ret: the tuple].
\* rand is the value of GetRand.
PreRegisterPeer(rc, peer_id, peer_inbound, rand) ==
    [rc |-> [rc EXCEPT !.salts = MapEmplace(rc.salts, peer_id, rand)],
     aborted |-> peer_id \in DOMAIN rc.salts,
     ret |-> [we_initiate_recon |-> ~peer_inbound,
              we_respond_recon |-> peer_inbound,
              recon_version |-> RECON_VERSION,
              recon_salt |-> rand]]

\* RegisterPeer that accepts only our own protocol version.
RegisterPeer_ExactVersion(rc, peer_id, peer_inbound, they_may_initiate, they_may_respond, recon_version, remote_salt) ==
    LET they_initiate == they_may_initiate /\ peer_inbound
        we_initiate == ~peer_inbound /\ they_may_respond
    IN  IF \/ peer_id \in DOMAIN rc.states
           \/ recon_version # RECON_VERSION
           \/ peer_id \notin DOMAIN rc.salts
           \/ ~(they_initiate \/ we_initiate)
        THEN [rc |-> rc, ret |-> FALSE]
        ELSE LET full_salt == ComputeSalt(rc.salts[peer_id], remote_salt)
             IN  [rc |-> [rc EXCEPT
                        !.queue = IF we_initiate THEN Append(@, peer_id) ELSE @,
                        !.states = MapEmplace(@, peer_id,
                            ReconciliationState(full_salt[1], full_salt[2], we_initiate))],
                  ret |-> TRUE]

\* RegisterPeer: [rc, ret: the bool returned].
RegisterPeer(rc, peer_id, peer_inbound, they_may_initiate, they_may_respond, recon_version, remote_salt) ==
    LET version == IF recon_version < RECON_VERSION THEN recon_version ELSE RECON_VERSION
        we_may_initiate == ~peer_inbound
        we_may_respond == peer_inbound
        they_initiate == they_may_initiate /\ we_may_respond
        we_initiate == we_may_initiate /\ they_may_respond
    IN  IF peer_id \in DOMAIN rc.states THEN [rc |-> rc, ret |-> FALSE]
        ELSE IF version < 1 THEN [rc |-> rc, ret |-> FALSE]
        ELSE IF peer_id \notin DOMAIN rc.salts THEN [rc |-> rc, ret |-> FALSE]
        ELSE IF ~(they_initiate \/ we_initiate) THEN [rc |-> rc, ret |-> FALSE]
        ELSE LET full_salt == ComputeSalt(rc.salts[peer_id], remote_salt)
             IN  [rc |-> [rc EXCEPT
                        !.queue = IF we_initiate THEN Append(@, peer_id) ELSE @,
                        !.states = MapEmplace(@, peer_id,
                            ReconciliationState(full_salt[1], full_salt[2], we_initiate))],
                  ret |-> TRUE]

\* ForgetPeer that keeps the local salt.
ForgetPeer_KeepSalt(rc, peer_id) ==
    [salts |-> rc.salts,
     states |-> MapErase(rc.states, peer_id),
     queue |-> SelectSeq(rc.queue, LAMBDA q : q # peer_id)]

\* ForgetPeer that leaves the queue alone.
ForgetPeer_KeepQueue(rc, peer_id) ==
    [salts |-> MapErase(rc.salts, peer_id),
     states |-> MapErase(rc.states, peer_id),
     queue |-> rc.queue]

ForgetPeer(rc, peer_id) ==
    [salts |-> MapErase(rc.salts, peer_id),
     states |-> MapErase(rc.states, peer_id),
     queue |-> SelectSeq(rc.queue, LAMBDA q : q # peer_id)]

IsPeerRegistered(rc, peer_id) == peer_id \in DOMAIN rc.states

\* The we_initiate_to_count of UpdateNextReconRequest: the std::count_if
\* over m_states.
WeInitiateToCount(states) ==
    Cardinality({p \in DOMAIN states : states[p].m_we_initiate})

\* UpdateNextReconRequest(now), now in microseconds: [next: the new
\* m_next_recon_request, divzero: the divisor was 0].
UpdateNextReconRequest(states, now, garbage) ==
    LET we_initiate_to_count == WeInitiateToCount(states)
    IN  IF we_initiate_to_count = 0 THEN [next |-> garbage, divzero |-> TRUE]
        ELSE [next |-> now + (RECON_REQUEST_INTERVAL \div we_initiate_to_count),
              divzero |-> FALSE]

\* MaybeRequestReconciliation(peer_id) at the time current_time (seconds):
\* [rc, next: m_next_recon_request afterwards, divzero, rotated: the queue
\* was rotated, ret: std::nullopt is [has |-> FALSE], else local_set_size].
MaybeRequestReconciliation(rc, next, peer_id, current_time, garbage) ==
    LET nothing == [rc |-> rc, next |-> next, divzero |-> FALSE, rotated |-> FALSE,
                    ret |-> [has |-> FALSE, local_set_size |-> 0]]
    IN  IF peer_id \notin DOMAIN rc.states THEN nothing
        ELSE IF Len(rc.queue) > 0
        THEN IF next <= current_time * MicrosPerSecond /\ Head(rc.queue) = peer_id
             THEN LET queue == Append(Tail(rc.queue), peer_id)
                      u == UpdateNextReconRequest(rc.states,
                               current_time * MicrosPerSecond, garbage)
                      recon_state == rc.states[peer_id]
                  IN  IF recon_state.m_phase # NONE
                      THEN [rc |-> [rc EXCEPT !.queue = queue], next |-> u.next,
                            divzero |-> u.divzero, rotated |-> TRUE,
                            ret |-> [has |-> FALSE, local_set_size |-> 0]]
                      ELSE [rc |-> [rc EXCEPT !.queue = queue,
                                       !.states[peer_id].m_phase = INIT_REQUESTED],
                            next |-> u.next, divzero |-> u.divzero, rotated |-> TRUE,
                            ret |-> [has |-> TRUE,
                                     local_set_size |->
                                         Cardinality(recon_state.m_wtxids)]]
             ELSE nothing
        ELSE nothing

TheRecon == ReconContainer(m_local_salts, m_states, m_queue)

\* The record rc becomes the reconciliation tracker's state.
StoreRecon(rc) ==
    /\ m_local_salts' = rc.salts
    /\ m_states' = rc.states
    /\ m_queue' = rc.queue
    /\ UNCHANGED <<m_index, m_bytime, m_peerinfo, m_sequence, m_k0, allocator_vars>>

CallPreRegisterPeer ==
    /\ ~aborted
    /\ \E peer_id \in NodeIds, peer_inbound \in BOOLEAN, rand \in ReconSalts :
        LET r == PreRegisterPeer(TheRecon, peer_id, peer_inbound, rand)
        IN  StoreRecon(r.rc) /\ aborted' = r.aborted
    /\ UNCHANGED m_next_recon_request

CallRegisterPeer ==
    /\ ~aborted
    /\ \E peer_id \in NodeIds, peer_inbound \in BOOLEAN, they_may_initiate \in BOOLEAN,
          they_may_respond \in BOOLEAN, recon_version \in Versions,
          remote_salt \in ReconSalts :
        StoreRecon(RegisterPeer(TheRecon, peer_id, peer_inbound, they_may_initiate,
                                they_may_respond, recon_version, remote_salt).rc)
    /\ UNCHANGED <<aborted, m_next_recon_request>>

CallForgetPeer ==
    /\ ~aborted
    /\ \E peer_id \in NodeIds : StoreRecon(ForgetPeer(TheRecon, peer_id))
    /\ UNCHANGED <<aborted, m_next_recon_request>>

\* GetTime<std::chrono::seconds>() is any of ReconTimes; the clock can be
\* mocked and set back.  A division by zero in UpdateNextReconRequest is
\* undefined: the process stops or goes on with any value of NextGarbage.
CallMaybeRequestReconciliation ==
    /\ ~aborted
    /\ \E peer_id \in NodeIds, current_time \in ReconTimes, garbage \in NextGarbage :
        LET r == MaybeRequestReconciliation(TheRecon, m_next_recon_request, peer_id,
                                            current_time, garbage)
        IN  /\ StoreRecon(r.rc)
            /\ m_next_recon_request' = r.next
            /\ aborted' \in (IF r.divzero THEN BOOLEAN ELSE {FALSE})

NextRecon ==
    \/ CallPreRegisterPeer
    \/ CallRegisterPeer
    \/ CallForgetPeer
    \/ CallMaybeRequestReconciliation

SpecRecon == Init /\ [][NextRecon]_vars

\* ----------------------------------------------------------------------
\* TxReconciliationTracker with the rounds initiated by the peer (the later
\* txreconciliation.cpp): ReconciliationState has the member
\* m_state_init_by_them and the set has m_short_id_mapping besides the
\* members above; registration, ForgetPeer and MaybeRequestReconciliation
\* are the same code.
\* ----------------------------------------------------------------------
INIT_RESPONDED == 2

\* constexpr std::chrono::microseconds RECON_RESPONSE_INTERVAL{1s}
RECON_RESPONSE_INTERVAL == 1000000
\* constexpr uint16_t Q_PRECISION{(2 << 14) - 1}
Q_PRECISION == 32767

\* The set sizes (uint16_t) a request carries are 0..MaxSetSize.
MaxSetSize == 1
SetSizes == 0..MaxSetSize
\* The q (uint16_t) a request carries.
PeerQs == {0, Q_PRECISION}
\* The wtxids (uint256) are 1..MaxWtxid.
MaxWtxid == 1
Wtxids == 1..MaxWtxid

\* m_remote_set_size has no initializer: the marker of a value that was
\* never written.  HandleReconciliationRequest writes it before the phase
\* is INIT_REQUESTED, and nothing reads it in another phase.
Indeterminate == -1

\* ReconciliationInitByThem with its default members; m_remote_q is the
\* fraction num / den, RECON_Q being 1 / 4.
ReconciliationInitByThem ==
    [m_remote_q |-> [num |-> 1, den |-> 4],
     m_remote_set_size |-> Indeterminate,
     m_last_init_recon_respond |-> 0,
     m_phase |-> NONE]

\* The ReconciliationState of every peer that has none of the later
\* members gets them with their defaults.
WithInitByThem(rc) ==
    [rc EXCEPT !.states = [p \in DOMAIN rc.states |->
        IF "m_state_init_by_them" \in DOMAIN rc.states[p] THEN rc.states[p]
        ELSE [m_k0 |-> rc.states[p].m_k0,
              m_k1 |-> rc.states[p].m_k1,
              m_we_initiate |-> rc.states[p].m_we_initiate,
              m_wtxids |-> rc.states[p].m_wtxids,
              m_phase |-> rc.states[p].m_phase,
              m_short_id_mapping |-> << >>,
              m_state_init_by_them |-> ReconciliationInitByThem]]]

\* ComputeShortID: 1 + the low bits of SipHashUint256(m_k0, m_k1, wtxid),
\* HashBits wide here.
ComputeShortID(state, wtxid) ==
    1 + ((3 * state.m_k0 + 5 * state.m_k1 + 7 * wtxid) % (2 ^ HashBits))

\* ComputeSketch with a capacity that is not 0: every wtxid of the local
\* set is emplaced in m_short_id_mapping under its short id.
RECURSIVE EmplaceShortIDs(_, _, _)
EmplaceShortIDs(state, mapping, wtxids) ==
    IF wtxids = {} THEN mapping
    ELSE LET wtxid == CHOOSE w \in wtxids : \A o \in wtxids : w <= o
         IN  EmplaceShortIDs(state,
                 MapEmplace(mapping, ComputeShortID(state, wtxid), wtxid),
                 wtxids \ {wtxid})

\* AddToReconSet(peer_id, {wtxid}): [rc, aborted: the assert on the peer's
\* state failed].
AddToReconSet(rc, peer_id, wtxid) ==
    IF peer_id \notin DOMAIN rc.states THEN [rc |-> rc, aborted |-> TRUE]
    ELSE [rc |-> [rc EXCEPT !.states[peer_id].m_wtxids = @ \cup {wtxid}],
          aborted |-> FALSE]

\* HandleReconciliationRequest without the check of our role.
HandleReconciliationRequest_AnyRole(rc, peer_id, peer_recon_set_size, peer_q) ==
    IF peer_id \notin DOMAIN rc.states THEN rc
    ELSE IF rc.states[peer_id].m_state_init_by_them.m_phase # NONE THEN rc
    ELSE [rc EXCEPT !.states[peer_id].m_state_init_by_them =
             [@ EXCEPT !.m_remote_q = [num |-> peer_q, den |-> Q_PRECISION],
                       !.m_remote_set_size = peer_recon_set_size,
                       !.m_phase = INIT_REQUESTED]]

\* HandleReconciliationRequest: the record afterwards.
HandleReconciliationRequest(rc, peer_id, peer_recon_set_size, peer_q) ==
    IF peer_id \notin DOMAIN rc.states THEN rc
    ELSE IF rc.states[peer_id].m_state_init_by_them.m_phase # NONE THEN rc
    ELSE IF rc.states[peer_id].m_we_initiate THEN rc
    ELSE [rc EXCEPT !.states[peer_id].m_state_init_by_them =
             [@ EXCEPT !.m_remote_q = [num |-> peer_q, den |-> Q_PRECISION],
                       !.m_remote_set_size = peer_recon_set_size,
                       !.m_phase = INIT_REQUESTED]]

\* ConsiderInitResponseAndTrack at the time current_time (seconds):
\* [them: the ReconciliationInitByThem afterwards, ret].
ConsiderInitResponseAndTrack(them, current_time) ==
    IF them.m_last_init_recon_respond
           <= current_time * MicrosPerSecond - RECON_RESPONSE_INTERVAL
    THEN [them |-> [them EXCEPT
                       !.m_last_init_recon_respond = current_time * MicrosPerSecond],
          ret |-> TRUE]
    ELSE [them |-> them, ret |-> FALSE]

\* RespondToReconciliationRequest at the time current_time: [rc, ret: the
\* bool returned, sketch: a sketch was computed for skdata].
RespondToReconciliationRequest(rc, peer_id, current_time) ==
    LET no == [rc |-> rc, ret |-> FALSE, sketch |-> FALSE]
    IN  IF peer_id \notin DOMAIN rc.states THEN no
        ELSE IF rc.states[peer_id].m_we_initiate THEN no
        ELSE IF rc.states[peer_id].m_state_init_by_them.m_phase # INIT_REQUESTED THEN no
        ELSE LET recon_state == rc.states[peer_id]
                 t == ConsiderInitResponseAndTrack(recon_state.m_state_init_by_them,
                                                   current_time)
                 sketch == /\ t.them.m_remote_set_size > 0
                           /\ Cardinality(recon_state.m_wtxids) > 0
             IN  IF ~t.ret THEN no
                 ELSE [rc |-> [rc EXCEPT !.states[peer_id] =
                                  [@ EXCEPT
                                      !.m_short_id_mapping =
                                          IF sketch
                                          THEN EmplaceShortIDs(recon_state, @,
                                                               recon_state.m_wtxids)
                                          ELSE @,
                                      !.m_state_init_by_them =
                                          [t.them EXCEPT !.m_phase = INIT_RESPONDED]]],
                       ret |-> TRUE,
                       sketch |-> sketch]

\* The peers of this specification are NodeIds 0..MaxThemNodeId.
MaxThemNodeId == 1
ThemNodeIds == 0..MaxThemNodeId

ThemPreRegisterPeer ==
    /\ ~aborted
    /\ \E peer_id \in ThemNodeIds, peer_inbound \in BOOLEAN, rand \in ReconSalts :
        \E r \in {PreRegisterPeer(TheRecon, peer_id, peer_inbound, rand)} :
            StoreRecon(r.rc) /\ aborted' = r.aborted
    /\ UNCHANGED m_next_recon_request

ThemForgetPeer ==
    /\ ~aborted
    /\ \E peer_id \in ThemNodeIds : StoreRecon(ForgetPeer(TheRecon, peer_id))
    /\ UNCHANGED <<aborted, m_next_recon_request>>

ThemRegisterPeer ==
    /\ ~aborted
    /\ \E peer_id \in ThemNodeIds, peer_inbound \in BOOLEAN, they_may_initiate \in BOOLEAN,
          they_may_respond \in BOOLEAN, recon_version \in Versions,
          remote_salt \in ReconSalts :
        StoreRecon(WithInitByThem(
            RegisterPeer(TheRecon, peer_id, peer_inbound, they_may_initiate,
                         they_may_respond, recon_version, remote_salt).rc))
    /\ UNCHANGED <<aborted, m_next_recon_request>>

CallAddToReconSet ==
    /\ ~aborted
    /\ \E peer_id \in ThemNodeIds, wtxid \in Wtxids :
        \E r \in {AddToReconSet(TheRecon, peer_id, wtxid)} :
            StoreRecon(r.rc) /\ aborted' = r.aborted
    /\ UNCHANGED m_next_recon_request

CallHandleReconciliationRequest ==
    /\ ~aborted
    /\ \E peer_id \in ThemNodeIds, peer_recon_set_size \in SetSizes, peer_q \in PeerQs :
        StoreRecon(HandleReconciliationRequest(TheRecon, peer_id,
                                               peer_recon_set_size, peer_q))
    /\ UNCHANGED <<aborted, m_next_recon_request>>

CallRespondToReconciliationRequest ==
    /\ ~aborted
    /\ \E peer_id \in ThemNodeIds, current_time \in ReconTimes :
        StoreRecon(RespondToReconciliationRequest(TheRecon, peer_id, current_time).rc)
    /\ UNCHANGED <<aborted, m_next_recon_request>>

NextThem ==
    \/ ThemPreRegisterPeer
    \/ ThemRegisterPeer
    \/ ThemForgetPeer
    \/ CallAddToReconSet
    \/ CallHandleReconciliationRequest
    \/ CallRespondToReconciliationRequest

SpecThem == Init /\ [][NextThem]_vars

\* ----------------------------------------------------------------------
\* node_allocator::MemoryResource (node_allocator.h).  Addresses are
\* integers, nullptr is 0.  A type T is the record [size, align] of
\* sizeof(T) and alignof(T).  The operations are operators on the record
\* of the members and the heap.
\* ----------------------------------------------------------------------
\* sizeof(ChunkNode) and alignof(ChunkNode): one pointer of 8 bytes.
SizeofChunkNode == 8
AlignofChunkNode == 8
\* Alignment of the addresses ::operator new returns.
NewAlignment == 16
\* Allocate is not called once the heap has grown to MaxHeap.
MaxHeap == 112
\* The caller holds at most MaxLive allocations.
MaxLive == 3
\* Allocate<T>(n) is called with 1 <= n <= MaxCount.
MaxCount == 2

\* char, void* and a pair of two 8-byte words.
Types == {[size |-> 1, align |-> 1], [size |-> 8, align |-> 8],
          [size |-> 16, align |-> 8]}
Counts == 1..MaxCount
\* Block sizes the MemoryResource is constructed with.
BlockSizes == {16, 24}

Max(a, b) == IF a > b THEN a ELSE b

\* Rounds sizeof(T) up to alignof(T) only, without regard to ChunkNode.
CalcRequiredChunkSizeBytes_TypeOnly(T) ==
    ((T.size + T.align - 1) \div T.align) * T.align

CalcRequiredChunkSizeBytes(T) ==
    LET alignment_max == Max(T.align, AlignofChunkNode)
        size_max == Max(T.size, SizeofChunkNode)
    IN  ((size_max + alignment_max - 1) \div alignment_max) * alignment_max

MemoryResource(free, blocks, chunk, block, it, end, heap) ==
    [free |-> free, blocks |-> blocks, chunk |-> chunk, block |-> block,
     it |-> it, end |-> end, heap |-> heap]

\* ::operator new(size): [mr, ptr], the heap grows by size rounded up.
OperatorNew(mr, size) ==
    [mr |-> [mr EXCEPT !.heap = @ + ((Max(size, 1) + NewAlignment - 1) \div NewAlignment)
                                        * NewAlignment],
     ptr |-> mr.heap]

\* AllocateNewBlock that takes the whole configured block size for the end
\* of the untouched memory.
AllocateNewBlock_WholeBlock(mr) ==
    LET num_chunks == mr.block \div mr.chunk
        r == OperatorNew(mr, num_chunks * mr.chunk)
    IN  [r.mr EXCEPT !.it = r.ptr,
                     !.end = r.ptr + mr.block,
                     !.blocks = Append(@, r.ptr)]

AllocateNewBlock(mr) ==
    LET num_chunks == mr.block \div mr.chunk
        r == OperatorNew(mr, num_chunks * mr.chunk)
    IN  [r.mr EXCEPT !.it = r.ptr,
                     !.end = r.ptr + num_chunks * mr.chunk,
                     !.blocks = Append(@, r.ptr)]

\* Allocate<T>(n): [mr, ptr].
Allocate(mr, T, n) ==
    LET required_chunk_size == CalcRequiredChunkSizeBytes(T)
        mr1 == IF mr.chunk = 0 /\ n = 1
               THEN [mr EXCEPT !.chunk = required_chunk_size] ELSE mr
    IN  IF mr1.chunk # required_chunk_size \/ n # 1
        THEN OperatorNew(mr1, n * T.size)
        ELSE IF mr1.free # << >>
        THEN [mr |-> [mr1 EXCEPT !.free = Tail(@)], ptr |-> Head(mr1.free)]
        ELSE LET mr2 == IF mr1.it = mr1.end THEN AllocateNewBlock(mr1) ELSE mr1
             IN  [mr |-> [mr2 EXCEPT !.it = @ + mr2.chunk], ptr |-> mr2.it]

\* Deallocate that appends the chunk at the end of the free list.
Deallocate_Fifo(mr, p, T, n) ==
    IF mr.chunk = CalcRequiredChunkSizeBytes(T) /\ n = 1
    THEN [mr EXCEPT !.free = @ \o <<p>>]
    ELSE mr

\* Deallocate<T>(p, n); ::operator delete leaves the model's heap as it is.
Deallocate(mr, p, T, n) ==
    IF mr.chunk = CalcRequiredChunkSizeBytes(T) /\ n = 1
    THEN [mr EXCEPT !.free = <<p>> \o @]
    ELSE mr

ChunkSize(mr) == mr.chunk

NumFreeChunks(mr) == Len(mr.free)

NumBlocks(mr) == Len(mr.blocks)

TheResource ==
    MemoryResource(m_free_chunks, m_allocated_blocks, m_chunk_size_bytes,
                   m_block_size_bytes, m_untouched_memory_iterator,
                   m_untouched_memory_end, heap_end)

\* The record mr becomes the memory resource's state.
StoreResource(mr) ==
    /\ m_free_chunks' = mr.free
    /\ m_allocated_blocks' = mr.blocks
    /\ m_chunk_size_bytes' = mr.chunk
    /\ m_block_size_bytes' = mr.block
    /\ m_untouched_memory_iterator' = mr.it
    /\ m_untouched_memory_end' = mr.end
    /\ heap_end' = mr.heap
    /\ UNCHANGED <<m_index, m_bytime, m_peerinfo, m_sequence, m_k0, aborted,
                   m_local_salts, m_states, m_queue, m_next_recon_request>>

InitAllocator ==
    /\ m_index = << >>
    /\ m_bytime = << >>
    /\ m_peerinfo = << >>
    /\ m_sequence = 0
    /\ m_k0 = 0
    /\ aborted = FALSE
    /\ m_local_salts = << >>
    /\ m_states = << >>
    /\ m_queue = << >>
    /\ m_next_recon_request = 0
    /\ \E block_size_byte \in BlockSizes : MemoryResourceInit(block_size_byte)

CallAllocate ==
    /\ heap_end < MaxHeap
    /\ Cardinality(live) < MaxLive
    /\ \E T \in Types, n \in Counts :
        LET r == Allocate(TheResource, T, n)
        IN  /\ StoreResource(r.mr)
            /\ live' = live \cup {[p |-> r.ptr, T |-> T, n |-> n]}

\* The caller gives an allocation back, with the type it was allocated for
\* or another type of the same required chunk size.
CallDeallocate ==
    \E l \in live : \E T \in Types :
        /\ CalcRequiredChunkSizeBytes(T) = CalcRequiredChunkSizeBytes(l.T)
        /\ StoreResource(Deallocate(TheResource, l.p, T, l.n))
        /\ live' = live \ {l}

NextAllocator ==
    \/ CallAllocate
    \/ CallDeallocate

SpecAllocator == InitAllocator /\ [][NextAllocator]_vars

\* ----------------------------------------------------------------------
\* Second allocator specification: the same calls, for a MemoryResource
\* constructed with a block size that is smaller than every chunk size,
\* between the two chunk sizes, or no multiple of the larger one.
\* ----------------------------------------------------------------------
AnyBlockSizes == {4, 12, 24}

InitAnyBlockSize ==
    /\ m_index = << >>
    /\ m_bytime = << >>
    /\ m_peerinfo = << >>
    /\ m_sequence = 0
    /\ m_k0 = 0
    /\ aborted = FALSE
    /\ m_local_salts = << >>
    /\ m_states = << >>
    /\ m_queue = << >>
    /\ m_next_recon_request = 0
    /\ \E block_size_byte \in AnyBlockSizes : MemoryResourceInit(block_size_byte)

SpecAnyBlockSize == InitAnyBlockSize /\ [][NextAllocator]_vars

\* ----------------------------------------------------------------------
\* Third allocator specification: single-element allocations of types of
\* every size 1..MaxTypeSize and every alignment in Alignments, so that
\* CalcRequiredChunkSizeBytes<T>() is applied to each of them.
\* ----------------------------------------------------------------------
\* sizeof(T) ranges over 1..MaxTypeSize.
MaxTypeSize == 33
\* alignof(T): the powers of two up to alignof(std::max_align_t).
Alignments == {1, 2, 4, 8, 16}
AllTypes == [size : 1..MaxTypeSize, align : Alignments]
\* The caller of this specification holds at most MaxHeld allocations at a time.
MaxHeld == 1

CallAllocateOne ==
    /\ heap_end < MaxHeap
    /\ Cardinality(live) < MaxHeld
    /\ \E T \in AllTypes :
        LET r == Allocate(TheResource, T, 1)
        IN  /\ StoreResource(r.mr)
            /\ live' = live \cup {[p |-> r.ptr, T |-> T, n |-> 1]}

CallDeallocateOne ==
    \E l \in live :
        /\ StoreResource(Deallocate(TheResource, l.p, l.T, l.n))
        /\ live' = live \ {l}

NextChunkSize ==
    \/ CallAllocateOne
    \/ CallDeallocateOne

SpecChunkSize == InitAllocator /\ [][NextChunkSize]_vars

\* TimeSanityCheck(now): the condition its asserts state.
TimeSanityCheck(tx, now) ==
    \A e \in {tx[i] : i \in 1..Len(tx)} :
        /\ IsWaiting(e) => e.m_time > now
        /\ IsSelectable(e) => e.m_time <= now

\* ----------------------------------------------------------------------
\* Vocabulary of the properties
\* ----------------------------------------------------------------------
Entries(tx) == {tx[i] : i \in 1..Len(tx)}

OfTxhash(tx, txhash) == {e \in Entries(tx) : e.m_txhash = txhash}

IsCandidate(e) ==
    GetState(e) \in {CANDIDATE_DELAYED, CANDIDATE_READY, CANDIDATE_BEST}

\* The txhashes of a vector of GenTxids.
Hashes(ret) == {ret[i].m_hash : i \in 1..Len(ret)}

\* Every public call that can be made on the tracker, with the container it
\* leaves: the calls of Next, for all arguments.
Calls ==
    UNION {
        UNION {{[op |-> "ReceivedInv", peer |-> peer, txhash |-> gtxid.m_hash,
                 is_wtxid |-> gtxid.m_is_wtxid,
                 c |-> ReceivedInv(TheContainer, m_sequence, peer, gtxid, preferred,
                                   overloaded, reqtime, garbage).c]
                 : garbage \in GarbageFlags(m_index, gtxid.m_hash)}
               : peer \in Peers, gtxid \in Gtxids, preferred \in BOOLEAN,
                 overloaded \in BOOLEAN, reqtime \in Times},
        {[op |-> "DeletedPeer", peer |-> peer, txhash |-> 0, is_wtxid |-> FALSE,
          c |-> DeletedPeer(TheContainer, peer)] : peer \in Peers},
        {[op |-> "AlreadyHaveTx", peer |-> 0, txhash |-> gtxid.m_hash,
          is_wtxid |-> gtxid.m_is_wtxid,
          c |-> AlreadyHaveTx(TheContainer, gtxid)] : gtxid \in Gtxids},
        {[op |-> "ReceivedResponse", peer |-> peer, txhash |-> gtxid.m_hash,
          is_wtxid |-> gtxid.m_is_wtxid,
          c |-> ReceivedResponse(TheContainer, peer, gtxid)]
          : peer \in Peers, gtxid \in Gtxids},
        {[op |-> "RequestedTx", peer |-> peer, txhash |-> gtxid.m_hash,
          is_wtxid |-> gtxid.m_is_wtxid,
          c |-> RequestedTx(TheContainer, peer, gtxid, exptime).c]
          : peer \in Peers, gtxid \in Gtxids, exptime \in Times},
        {[op |-> "GetRequestable", peer |-> peer, txhash |-> 0, is_wtxid |-> FALSE,
          c |-> GetRequestable(TheContainer, peer, now).c]
          : peer \in Peers, now \in Times}
    }

\* ----------------------------------------------------------------------
\* C1: after every public operation each txhash has at most one announcement
\* that is CANDIDATE_BEST or REQUESTED, and GetRequestable returns, for no
\* peer, a txhash that has a REQUESTED announcement when it returns.
\* ----------------------------------------------------------------------
C1_AtMostOneSelected ==
    /\ \A e \in Entries(m_index) : \A f \in Entries(m_index) :
        (e.m_txhash = f.m_txhash /\ IsSelected(e) /\ IsSelected(f)) => e = f
    /\ \A peer \in Peers, now \in Times :
        LET r == GetRequestable(TheContainer, peer, now)
        IN  \A e \in Entries(r.c.tx) :
                GetState(e) = REQUESTED => e.m_txhash \notin Hashes(r.ret)

\* A request is outstanding while another peer's candidate of the txhash,
\* already past its reqtime, waits as CANDIDATE_READY.
C1_Witness ==
    \E e \in Entries(m_index) : \E f \in Entries(m_index) :
        /\ e.m_txhash = f.m_txhash
        /\ GetState(e) = REQUESTED
        /\ GetState(f) = CANDIDATE_READY

\* ----------------------------------------------------------------------
\* C3: after every public operation, a txhash with at least one
\* CANDIDATE_READY announcement has exactly one announcement that is
\* CANDIDATE_BEST or REQUESTED.
\* ----------------------------------------------------------------------
C3_ReadyHasOneSelected ==
    \A e \in Entries(m_index) :
        GetState(e) = CANDIDATE_READY =>
            Cardinality({f \in OfTxhash(m_index, e.m_txhash) : IsSelected(f)}) = 1

\* A CANDIDATE_READY announcement next to the CANDIDATE_BEST of its txhash.
C3_Witness ==
    \E e \in Entries(m_index) : \E f \in Entries(m_index) :
        /\ e.m_txhash = f.m_txhash
        /\ GetState(e) = CANDIDATE_READY
        /\ GetState(f) = CANDIDATE_BEST

\* ----------------------------------------------------------------------
\* C4: after every public operation the CANDIDATE_BEST of a txhash has a
\* priority <= that of every CANDIDATE_READY of the txhash; and when
\* GetRequestable promotes a CANDIDATE_DELAYED whose priority is strictly
\* lower than that of the current CANDIDATE_BEST, the old CANDIDATE_BEST
\* becomes CANDIDATE_READY and a candidate at least as good as the promoted
\* one is CANDIDATE_BEST.
\* ----------------------------------------------------------------------
C4_BestHasLowestPriority ==
    /\ \A b \in Entries(m_index) : \A r \in Entries(m_index) :
        (/\ b.m_txhash = r.m_txhash
         /\ GetState(b) = CANDIDATE_BEST
         /\ GetState(r) = CANDIDATE_READY)
        => ComputePriority(b) <= ComputePriority(r)
    /\ \A peer \in Peers, now \in Times :
        \A b \in Entries(m_index) : \A d \in Entries(m_index) :
            (/\ b.m_txhash = d.m_txhash
             /\ GetState(b) = CANDIDATE_BEST /\ b.m_time <= now
             /\ GetState(d) = CANDIDATE_DELAYED /\ d.m_time <= now
             /\ ComputePriority(d) < ComputePriority(b))
            => LET tx == GetRequestable(TheContainer, peer, now).c.tx
               IN  /\ GetState(EntryOf(tx, b.m_sequence)) = CANDIDATE_READY
                   /\ \E n \in OfTxhash(tx, b.m_txhash) :
                        /\ GetState(n) = CANDIDATE_BEST
                        /\ ComputePriority(n) <= ComputePriority(d)

\* A CANDIDATE_BEST and a strictly better CANDIDATE_DELAYED whose reqtime a
\* later time point reaches: GetRequestable at that time swaps them.
C4_Witness ==
    \E b \in Entries(m_index) : \E d \in Entries(m_index) :
        /\ b.m_txhash = d.m_txhash
        /\ GetState(b) = CANDIDATE_BEST
        /\ GetState(d) = CANDIDATE_DELAYED
        /\ ComputePriority(d) < ComputePriority(b)
        /\ LET tx == GetRequestable(TheContainer, b.m_peer, MaxTime).c.tx
           IN  /\ GetState(EntryOf(tx, b.m_sequence)) = CANDIDATE_READY
               /\ GetState(EntryOf(tx, d.m_sequence)) = CANDIDATE_BEST

\* ----------------------------------------------------------------------
\* C5: after every public operation no txhash is tracked with COMPLETED
\* announcements only: the call that completes or removes the last
\* CANDIDATE/REQUESTED announcement of a txhash leaves no announcement of it;
\* and ReceivedInv followed by ReceivedResponse for the only announcer of a
\* txhash leaves no announcement of that txhash.
\* ----------------------------------------------------------------------
C5_NoCompletedOnly ==
    /\ \A e \in Entries(m_index) :
        \E f \in OfTxhash(m_index, e.m_txhash) : GetState(f) # COMPLETED
    /\ \A peer \in Peers, gtxid \in Gtxids, preferred \in BOOLEAN,
          overloaded \in BOOLEAN, reqtime \in Times :
        \A garbage \in GarbageFlags(m_index, gtxid.m_hash) :
            OfTxhash(m_index, gtxid.m_hash) = {} =>
                LET c1 == ReceivedInv(TheContainer, m_sequence, peer, gtxid,
                                      preferred, overloaded, reqtime, garbage).c
                    c2 == ReceivedResponse(c1, peer, gtxid)
                IN  /\ OfTxhash(c1.tx, gtxid.m_hash) # {}
                    /\ OfTxhash(c2.tx, gtxid.m_hash) = {}

\* A txhash with a COMPLETED announcement and one outstanding request: the
\* response to the request deletes both.
C5_Witness ==
    \E e \in Entries(m_index) : \E f \in Entries(m_index) :
        /\ e.m_txhash = f.m_txhash
        /\ GetState(e) = COMPLETED
        /\ GetState(f) = REQUESTED
        /\ ReceivedResponse(TheContainer, f.m_peer,
               [m_is_wtxid |-> f.m_is_wtxid, m_hash |-> f.m_txhash]).tx = <<>>

\* ----------------------------------------------------------------------
\* C6: in every reachable state no two announcements
\* have the same peer and the same txhash, whatever their states and
\* whatever is_wtxid they were announced with.
\* ----------------------------------------------------------------------
C6_OnePerPeerAndTxhash ==
    \A i \in 1..Len(m_index) : \A j \in 1..Len(m_index) :
        (m_index[i].m_peer = m_index[j].m_peer
            /\ m_index[i].m_txhash = m_index[j].m_txhash) => i = j

\* A CANDIDATE_BEST announced by txid; the same peer announcing the same
\* hash by wtxid adds nothing.
C6_Witness ==
    \E e \in Entries(m_index) :
        /\ GetState(e) = CANDIDATE_BEST
        /\ ~e.m_is_wtxid
        /\ m_sequence < MaxSequence
        /\ ReceivedInv(TheContainer, m_sequence, e.m_peer,
                       [m_is_wtxid |-> TRUE, m_hash |-> e.m_txhash],
                       TRUE, FALSE, 0, 0).c.tx = m_index

\* ----------------------------------------------------------------------
\* C10: when GetRequestable(peer, now) returns, for every peer and every
\* now, later or earlier than the time points of earlier calls, every
\* REQUESTED and CANDIDATE_DELAYED announcement has time > now and every
\* CANDIDATE_READY and CANDIDATE_BEST announcement has time <= now; what it
\* returns for the peer are announcements of the peer with reqtime <= now.
\* ----------------------------------------------------------------------
C10_TimeSanityAfterGetRequestable ==
    \A peer \in Peers, now \in Times :
        LET r == GetRequestable(TheContainer, peer, now)
        IN  /\ TimeSanityCheck(r.c.tx, now)
            /\ \A h \in Hashes(r.ret) :
                \E e \in OfTxhash(r.c.tx, h) : e.m_peer = peer /\ e.m_time <= now

\* A selectable announcement with reqtime 1 and a call with now = 0: the
\* announcement goes back to CANDIDATE_DELAYED.
C10_Witness ==
    \E e \in Entries(m_index) :
        /\ IsSelectable(e)
        /\ e.m_time = 1
        /\ GetState(EntryOf(GetRequestable(TheContainer, e.m_peer, 0).c.tx,
                            e.m_sequence)) = CANDIDATE_DELAYED

\* ----------------------------------------------------------------------
\* The selection GetRequestable is to make
\* ----------------------------------------------------------------------
\* The CANDIDATE announcements of txhash whose reqtime has come at now.
Eligible(tx, txhash, now) ==
    {e \in OfTxhash(tx, txhash) : IsCandidate(e) /\ e.m_time <= now}

\* A request for txhash that has not expired at now.
Outstanding(tx, txhash, now) ==
    \E e \in OfTxhash(tx, txhash) : GetState(e) = REQUESTED /\ e.m_time > now

\* The txhashes for which peer's announcement is an eligible candidate of
\* the lowest priority, no request being outstanding.
Expected(tx, peer, now) ==
    {h \in TxHashes :
        /\ ~Outstanding(tx, h, now)
        /\ \E e \in Eligible(tx, h, now) :
            /\ e.m_peer = peer
            /\ \A f \in Eligible(tx, h, now) :
                ComputePriority(e) <= ComputePriority(f)}

\* The same with a priority strictly lower than that of every other one.
ExpectedStrict(tx, peer, now) ==
    {h \in TxHashes :
        /\ ~Outstanding(tx, h, now)
        /\ \E e \in Eligible(tx, h, now) :
            /\ e.m_peer = peer
            /\ \A f \in Eligible(tx, h, now) :
                f = e \/ ComputePriority(e) < ComputePriority(f)}

\* ----------------------------------------------------------------------
\* C2 as stated: GetRequestable(peer, now) returns exactly the txhashes h
\* that have no REQUESTED announcement once those with exptime <= now are
\* completed and for which peer's announcement is a CANDIDATE with
\* reqtime <= now of the lowest priority among the CANDIDATEs of h with
\* reqtime <= now.
\* ----------------------------------------------------------------------
C2_ExactlyLowestPriority ==
    \A peer \in Peers, now \in Times :
        Hashes(GetRequestable(TheContainer, peer, now).ret)
            = Expected(m_index, peer, now)

\* ----------------------------------------------------------------------
\* C2, amended: GetRequestable(peer, now) returns only txhashes of that
\* description, returns every one of them for which peer's priority is
\* strictly lower than that of every other eligible candidate, and returns
\* a txhash that has eligible candidates and no outstanding request to
\* exactly one peer; what it returns is a function of the announcements and
\* now whenever the lowest priority is not shared.
\* ----------------------------------------------------------------------
C2_LowestPriorityUpToTies ==
    /\ \A peer \in Peers, now \in Times :
        LET ret == Hashes(GetRequestable(TheContainer, peer, now).ret)
        IN  /\ ExpectedStrict(m_index, peer, now) \subseteq ret
            /\ ret \subseteq Expected(m_index, peer, now)
    /\ \A h \in TxHashes, now \in Times :
        (~Outstanding(m_index, h, now) /\ Eligible(m_index, h, now) # {})
        => Cardinality({peer \in Peers :
               h \in Hashes(GetRequestable(TheContainer, peer, now).ret)}) = 1

\* Two eligible candidates of one txhash with the same priority, and no
\* request outstanding: the txhash is returned to one of the two peers and
\* not to the other.
C2_Witness ==
    \E e \in Entries(m_index) : \E f \in Entries(m_index) :
        /\ e.m_txhash = f.m_txhash
        /\ e.m_peer # f.m_peer
        /\ IsCandidate(e) /\ IsCandidate(f)
        /\ ComputePriority(e) = ComputePriority(f)
        /\ e.m_txhash \in Hashes(GetRequestable(TheContainer, e.m_peer, MaxTime).ret)
        /\ f.m_txhash \notin Hashes(GetRequestable(TheContainer, f.m_peer, MaxTime).ret)

\* ----------------------------------------------------------------------
\* C7: ReceivedInv for a (peer, txhash) that has an announcement, in
\* whatever state, changes nothing for any preferred, overloaded, reqtime
\* and is_wtxid: the entries with their states, times, first bits and
\* per_txhash flags, both index orders, the peer counters and m_sequence
\* are what they were; hence a second ReceivedInv for the pair right after
\* a first one changes nothing.
\* ----------------------------------------------------------------------
C7_ReceivedInvExistingIsNoOp ==
    \A peer \in Peers, gtxid \in Gtxids, preferred \in BOOLEAN,
       overloaded \in BOOLEAN, reqtime \in Times :
        IF \E e \in Entries(m_index) : e.m_peer = peer /\ e.m_txhash = gtxid.m_hash
        THEN \A garbage \in 0..3 :
                ReceivedInv(TheContainer, m_sequence, peer, gtxid, preferred,
                            overloaded, reqtime, garbage)
                    = [c |-> TheContainer, seq |-> m_sequence]
        ELSE \A garbage \in GarbageFlags(m_index, gtxid.m_hash) :
                LET r1 == ReceivedInv(TheContainer, m_sequence, peer, gtxid,
                                      preferred, overloaded, reqtime, garbage)
                IN  \A again \in {g \in Gtxids : g.m_hash = gtxid.m_hash} :
                        /\ ReceivedInv(r1.c, r1.seq, peer, again, preferred,
                                       overloaded, reqtime, 0) = r1
                        /\ ReceivedInv(r1.c, r1.seq, peer, again, ~preferred,
                                       ~overloaded, MaxTime - reqtime, 3) = r1

\* A COMPLETED announcement whose peer announces the txhash again, with the
\* other preferredness and a later reqtime.
C7_Witness ==
    \E e \in Entries(m_index) :
        /\ GetState(e) = COMPLETED
        /\ e.m_time = 0
        /\ ReceivedInv(TheContainer, m_sequence, e.m_peer,
                       [m_is_wtxid |-> TRUE, m_hash |-> e.m_txhash],
                       ~e.m_preferred, FALSE, MaxTime, 0)
               = [c |-> TheContainer, seq |-> m_sequence]

\* ----------------------------------------------------------------------
\* C8: an announcement that is REQUESTED or, having been REQUESTED or not,
\* COMPLETED is after every call either gone or COMPLETED or still the same
\* request: no call makes it a CANDIDATE or requests it anew; and
\* GetRequestable(peer, now) returns no txhash for which peer has a
\* REQUESTED or COMPLETED announcement.
\* ----------------------------------------------------------------------
C8_NeverRequestedTwice ==
    /\ \A k \in Calls : \A e \in Entries(m_index) : \A f \in Entries(k.c.tx) :
        (f.m_sequence = e.m_sequence /\ GetState(e) \in {REQUESTED, COMPLETED})
        => \/ GetState(f) = COMPLETED
           \/ GetState(e) = REQUESTED /\ f = e
           \/ /\ GetState(e) = REQUESTED /\ GetState(f) = REQUESTED
              /\ f.m_time = e.m_time
    /\ \A e \in Entries(m_index) : \A now \in Times :
        GetState(e) \in {REQUESTED, COMPLETED}
        => e.m_txhash \notin Hashes(GetRequestable(TheContainer, e.m_peer, now).ret)

\* A request that expires with another candidate waiting: GetRequestable
\* completes it, does not return the txhash to its peer and returns it to
\* the other peer.
C8_Witness ==
    \E e \in Entries(m_index) : \E f \in Entries(m_index) :
        /\ e.m_txhash = f.m_txhash
        /\ GetState(e) = REQUESTED
        /\ IsCandidate(f)
        /\ LET r == GetRequestable(TheContainer, e.m_peer, MaxTime)
               q == GetRequestable(TheContainer, f.m_peer, MaxTime)
           IN  /\ GetState(EntryOf(r.c.tx, e.m_sequence)) = COMPLETED
               /\ e.m_txhash \notin Hashes(r.ret)
               /\ e.m_txhash \in Hashes(q.ret)

\* ----------------------------------------------------------------------
\* C9: an announcement that a call removes is removed by DeletedPeer for
\* its peer, by AlreadyHaveTx for its txhash, or by a call after which its
\* txhash has no CANDIDATE and no REQUESTED announcement; so a COMPLETED
\* announcement outlives every other call that leaves a CANDIDATE or
\* REQUESTED announcement of its txhash.
\* ----------------------------------------------------------------------
C9_RemovedOnlyWhenForgotten ==
    \A k \in Calls : \A e \in Entries(m_index) :
        (\A f \in Entries(k.c.tx) : f.m_sequence # e.m_sequence)
        => \/ k.op = "DeletedPeer" /\ k.peer = e.m_peer
           \/ k.op = "AlreadyHaveTx" /\ k.txhash = e.m_txhash
           \/ \A f \in OfTxhash(k.c.tx, e.m_txhash) :
                ~IsCandidate(f) /\ GetState(f) # REQUESTED

\* A COMPLETED announcement of one peer and the last candidate of the
\* txhash from another: DeletedPeer for the other peer removes both.
C9_Witness ==
    \E e \in Entries(m_index) : \E f \in Entries(m_index) :
        /\ e.m_txhash = f.m_txhash
        /\ e.m_peer # f.m_peer
        /\ GetState(e) = COMPLETED
        /\ IsCandidate(f)
        /\ DeletedPeer(TheContainer, f.m_peer).tx = <<>>

\* ----------------------------------------------------------------------
\* C11: the gtxids GetRequestable returns come in ascending order of the
\* sequence numbers of their announcements, whatever the reqtimes, the
\* txhashes and the time points; every announcement ReceivedInv accepts
\* gets the current m_sequence, larger than every number in use, and the
\* is_wtxid of its gtxid; no call changes the sequence number, the peer,
\* the txhash or the is_wtxid of an announcement; and each returned gtxid
\* has the is_wtxid of its announcement.
\* ----------------------------------------------------------------------
C11_ReturnedInAnnouncementOrder ==
    /\ \A e \in Entries(m_index) : e.m_sequence < m_sequence
    /\ \A peer \in Peers, now \in Times :
        LET r == GetRequestable(TheContainer, peer, now)
            of(i) == CHOOSE e \in Entries(r.c.tx) :
                        e.m_peer = peer /\ e.m_txhash = r.ret[i].m_hash
        IN  /\ \A i \in 1..Len(r.ret) :
                /\ \E e \in Entries(r.c.tx) :
                    e.m_peer = peer /\ e.m_txhash = r.ret[i].m_hash
                /\ r.ret[i].m_is_wtxid = of(i).m_is_wtxid
            /\ \A i \in 1..Len(r.ret) : \A j \in 1..Len(r.ret) :
                i < j => of(i).m_sequence < of(j).m_sequence
    /\ \A k \in Calls : \A f \in Entries(k.c.tx) :
        IF f.m_sequence < m_sequence
        THEN \E e \in Entries(m_index) :
                /\ e.m_sequence = f.m_sequence
                /\ e.m_peer = f.m_peer
                /\ e.m_txhash = f.m_txhash
                /\ e.m_is_wtxid = f.m_is_wtxid
        ELSE /\ f.m_sequence = m_sequence
             /\ k.op = "ReceivedInv"
             /\ f.m_peer = k.peer
             /\ f.m_txhash = k.txhash
             /\ f.m_is_wtxid = k.is_wtxid

\* One peer announced txhash 2 first, with the later reqtime, then txhash 1
\* by txid: it is handed txhash 2 before txhash 1.
C11_Witness ==
    \E peer \in Peers :
        /\ \E e \in Entries(m_index) :
            e.m_peer = peer /\ e.m_txhash = 2 /\ e.m_sequence = 0 /\ e.m_time = 1
        /\ \E e \in Entries(m_index) :
            e.m_peer = peer /\ e.m_txhash = 1 /\ e.m_sequence = 1 /\ e.m_time = 0
        /\ GetRequestable(TheContainer, peer, 1).ret
            = <<[m_is_wtxid |-> TRUE, m_hash |-> 2],
                [m_is_wtxid |-> FALSE, m_hash |-> 1]>>

\* ----------------------------------------------------------------------
\* C12: the top bit of a priority is !preferred; the bits below it are 0
\* when first is set and the keyed hash of (txhash, peer) shifted right by
\* one otherwise.  So for one txhash a preferred announcement with the first
\* marker is not above any other preferred one, every preferred one is
\* strictly below every non-preferred one, and a non-preferred one with the
\* first marker is not above any other non-preferred one; and no txhash has
\* a non-preferred CANDIDATE_BEST next to a preferred CANDIDATE_READY.
\* ----------------------------------------------------------------------
C12_PriorityLayout ==
    /\ \A txhash \in TxHashes, peer \in Peers, preferred \in BOOLEAN, first \in BOOLEAN :
        LET priority == PriorityComputer(txhash, peer, preferred, first)
            top == 2 ^ (HashBits - 1)
        IN  /\ priority \in 0..(2 ^ HashBits - 1)
            /\ priority \div top = (IF preferred THEN 0 ELSE 1)
            /\ priority % top =
                (IF first THEN 0 ELSE SipHash(m_k0, txhash, peer) \div 2)
    /\ \A txhash \in TxHashes, p \in Peers, q \in Peers, f \in BOOLEAN, g \in BOOLEAN :
        /\ PriorityComputer(txhash, p, TRUE, TRUE)
              <= PriorityComputer(txhash, q, TRUE, f)
        /\ PriorityComputer(txhash, p, TRUE, f)
              < PriorityComputer(txhash, q, FALSE, g)
        /\ PriorityComputer(txhash, p, FALSE, TRUE)
              <= PriorityComputer(txhash, q, FALSE, g)
    /\ \A b \in Entries(m_index) : \A r \in Entries(m_index) :
        (/\ b.m_txhash = r.m_txhash
         /\ GetState(b) = CANDIDATE_BEST
         /\ GetState(r) = CANDIDATE_READY)
        => (r.m_preferred => b.m_preferred)

\* A preferred CANDIDATE_BEST without the first marker and with a hash that
\* is not zero, ahead of a non-preferred CANDIDATE_READY with the marker.
C12_Witness ==
    \E b \in Entries(m_index) : \E r \in Entries(m_index) :
        /\ b.m_txhash = r.m_txhash
        /\ GetState(b) = CANDIDATE_BEST
        /\ b.m_preferred /\ ~b.m_first
        /\ ComputePriority(b) > 0
        /\ GetState(r) = CANDIDATE_READY
        /\ ~r.m_preferred /\ r.m_first
        /\ r.m_sequence < b.m_sequence

LastFlags(tx, txhash) ==
    LET at == {i \in 1..Len(tx) : tx[i].m_txhash = txhash}
    IN  IF at = {} THEN 0
        ELSE tx[CHOOSE i \in at : \A j \in at : j <= i].m_per_txhash

\* The NO_MORE_*_FIRST flag of a preferred class.
ClassFlag(preferred) ==
    IF preferred THEN TXHASHINFO_NO_MORE_PREFERRED_FIRST
    ELSE TXHASHINFO_NO_MORE_NONPREFERRED_FIRST

\* Peers for a call: those of the tracker and one that never announced.
CallPeers == 1..(MaxPeer + 1)

\* The entry with sequence number id, in a set with one element at most.
Created(tx, id) == {e \in Entries(tx) : e.m_sequence = id}

\* ----------------------------------------------------------------------
\* C14: a ReceivedInv that creates an announcement for a txhash that has
\* announcements sets first exactly when overloaded is false and the
\* NO_MORE flag of the announcement's class is clear in the m_per_txhash of
\* the last ByTxHash entry of the txhash.  An overloaded announcer gets no
\* marker and leaves the flags of the txhash as they are, and the next
\* announcer of the class that is not overloaded gets the marker exactly
\* when it would have got it before.
\* ----------------------------------------------------------------------
C14_FirstMarkerRule ==
    \A gtxid \in Gtxids, peer \in CallPeers, preferred \in BOOLEAN, reqtime \in Times :
        (/\ OfTxhash(m_index, gtxid.m_hash) # {}
         /\ \A e \in OfTxhash(m_index, gtxid.m_hash) : e.m_peer # peer)
        => LET flags == LastFlags(m_index, gtxid.m_hash)
               free == BitAnd(flags, ClassFlag(preferred)) = 0
               plain == ReceivedInv(TheContainer, m_sequence, peer, gtxid,
                                    preferred, FALSE, reqtime, 0)
               over == ReceivedInv(TheContainer, m_sequence, peer, gtxid,
                                   preferred, TRUE, reqtime, 0)
           IN  /\ \E f \in Created(plain.c.tx, m_sequence) : f.m_first = free
               /\ \E f \in Created(over.c.tx, m_sequence) : ~f.m_first
               /\ LastFlags(over.c.tx, gtxid.m_hash) = flags
               /\ \A next \in CallPeers :
                    (/\ next # peer
                     /\ \A e \in OfTxhash(m_index, gtxid.m_hash) : e.m_peer # next)
                    => \E f \in Created(
                           ReceivedInv(over.c, over.seq, next, gtxid, preferred,
                                       FALSE, reqtime, 0).c.tx, over.seq) :
                           f.m_first = free

\* A non-preferred announcement with the marker; a preferred overloaded
\* announcer comes next and gets no marker, and the preferred announcer
\* after it, not overloaded, gets the marker.
C14_Witness ==
    \E e \in Entries(m_index) :
        /\ OfTxhash(m_index, e.m_txhash) = {e}
        /\ ~e.m_preferred /\ e.m_first
        /\ LET gtxid == [m_is_wtxid |-> TRUE, m_hash |-> e.m_txhash]
               p == CHOOSE p \in CallPeers : p # e.m_peer
               q == CHOOSE q \in CallPeers : q # e.m_peer /\ q # p
               over == ReceivedInv(TheContainer, m_sequence, p, gtxid,
                                   TRUE, TRUE, 0, 0)
               then == ReceivedInv(over.c, over.seq, q, gtxid, TRUE, FALSE, 0, 0)
           IN  /\ \E f \in Created(over.c.tx, m_sequence) : ~f.m_first
               /\ \E f \in Created(then.c.tx, over.seq) : f.m_first

\* Both NO_MORE_*_FIRST flags.
NoMoreFirst ==
    BitOr(TXHASHINFO_NO_MORE_PREFERRED_FIRST, TXHASHINFO_NO_MORE_NONPREFERRED_FIRST)

\* The gtxid an entry was announced with.
GtxidOf(e) == [m_is_wtxid |-> e.m_is_wtxid, m_hash |-> e.m_txhash]

C16_RequestedTxAborts ==
    \A peer \in CallPeers, gtxid \in Gtxids, exptime \in Times :
        LET r == RequestedTx(TheContainer, peer, gtxid, exptime)
            mine == {e \in OfTxhash(m_index, gtxid.m_hash) : e.m_peer = peer}
        IN  IF \E e \in mine : GetState(e) = CANDIDATE_BEST
            THEN ~r.aborted
            ELSE r.aborted /\ r.c = TheContainer

\* RequestedTx for an announcement that is already REQUESTED, and for one
\* that is CANDIDATE_READY: both fail and change nothing.
C16_Witness ==
    \E e \in Entries(m_index) : \E f \in Entries(m_index) :
        /\ GetState(e) = REQUESTED
        /\ GetState(f) = CANDIDATE_READY
        /\ RequestedTx(TheContainer, e.m_peer, GtxidOf(e), MaxTime)
               = [c |-> TheContainer, aborted |-> TRUE]
        /\ RequestedTx(TheContainer, f.m_peer, GtxidOf(f), MaxTime)
               = [c |-> TheContainer, aborted |-> TRUE]

\* The entries of s, in order, that are not of txhash.
RECURSIVE Without(_, _)
Without(s, txhash) ==
    IF s = << >> THEN << >>
    ELSE IF Head(s).m_txhash = txhash THEN Without(Tail(s), txhash)
    ELSE <<Head(s)>> \o Without(Tail(s), txhash)

\* The sequence numbers of s, in order, except those in gone.
RECURSIVE WithoutIds(_, _)
WithoutIds(s, gone) ==
    IF s = << >> THEN << >>
    ELSE IF Head(s) \in gone THEN WithoutIds(Tail(s), gone)
    ELSE <<Head(s)>> \o WithoutIds(Tail(s), gone)

\* The per-peer statistics that the entries of tx amount to.
CountedPeerInfo(tx) ==
    [peer \in {e.m_peer : e \in Entries(tx)} |->
        [m_total |-> Cardinality({e \in Entries(tx) : e.m_peer = peer}),
         m_requested |-> Cardinality({e \in Entries(tx) :
                            e.m_peer = peer /\ GetState(e) = REQUESTED})]]

\* ----------------------------------------------------------------------
\* C17: AlreadyHaveTx(gtxid) removes every announcement of gtxid's hash,
\* whatever its state and whichever is_wtxid it and gtxid have, and leaves
\* the rest as it was: the announcements of the other txhashes with their
\* state, time, first bit and flags, in the same ByTxHash and ByTime order,
\* and the peer counters are those of the announcements that remain.
\* ----------------------------------------------------------------------
C17_AlreadyHaveTxFrame ==
    \A gtxid \in Gtxids :
        LET r == AlreadyHaveTx(TheContainer, gtxid)
            gone == {e.m_sequence : e \in OfTxhash(m_index, gtxid.m_hash)}
        IN  /\ r.tx = Without(m_index, gtxid.m_hash)
            /\ r.tm = WithoutIds(m_bytime, gone)
            /\ r.pi = CountedPeerInfo(r.tx)

\* A txhash announced by txid whose announcement is selected, and a
\* candidate of another txhash: AlreadyHaveTx by wtxid removes the first
\* and leaves the second as it is.
C17_Witness ==
    \E e \in Entries(m_index) : \E f \in Entries(m_index) :
        /\ e.m_txhash # f.m_txhash
        /\ ~e.m_is_wtxid
        /\ IsSelected(e)
        /\ IsCandidate(f)
        /\ AlreadyHaveTx(TheContainer, [m_is_wtxid |-> TRUE, m_hash |-> e.m_txhash]).tx
               = <<f>>

\* ----------------------------------------------------------------------
\* C18 as stated: after AlreadyHaveTx for a txhash, whichever operation
\* involving the txhash comes next (ReceivedInv, ReceivedResponse,
\* RequestedTx, AlreadyHaveTx for it, GetRequestable or DeletedPeer for a
\* peer), the tracker holds no announcement of the txhash.
\* ----------------------------------------------------------------------
C18_NoEntryAfterAlreadyHaveTx ==
    \A gtxid \in Gtxids :
        LET c1 == AlreadyHaveTx(TheContainer, gtxid)
            h == gtxid.m_hash
        IN  /\ OfTxhash(c1.tx, h) = {}
            /\ \A peer \in Peers, time \in Times :
                /\ OfTxhash(ReceivedResponse(c1, peer, gtxid).tx, h) = {}
                /\ OfTxhash(RequestedTx(c1, peer, gtxid, time).c.tx, h) = {}
                /\ OfTxhash(GetRequestable(c1, peer, time).c.tx, h) = {}
                /\ OfTxhash(DeletedPeer(c1, peer).tx, h) = {}
                /\ OfTxhash(AlreadyHaveTx(c1, gtxid).tx, h) = {}
                /\ \A preferred \in BOOLEAN, overloaded \in BOOLEAN :
                    \A garbage \in GarbageFlags(c1.tx, h) :
                        OfTxhash(ReceivedInv(c1, m_sequence, peer, gtxid, preferred,
                                             overloaded, time, garbage).c.tx, h) = {}

\* ----------------------------------------------------------------------
\* C18, amended: after AlreadyHaveTx for a txhash the tracker holds no
\* announcement of it, and it still holds none after a ReceivedResponse or
\* another AlreadyHaveTx for the txhash (which change nothing), after a
\* GetRequestable (which returns the txhash to nobody) and after a
\* DeletedPeer; RequestedTx for it fails its assertion.  The tracker keeps
\* no record of the txhash: a ReceivedInv for it creates one
\* CANDIDATE_DELAYED announcement as for a txhash never seen.
\* ----------------------------------------------------------------------
C18_ForgottenUntilReannounced ==
    \A gtxid \in Gtxids :
        LET c1 == AlreadyHaveTx(TheContainer, gtxid)
            h == gtxid.m_hash
        IN  /\ OfTxhash(c1.tx, h) = {}
            /\ \A peer \in Peers, time \in Times :
                /\ ReceivedResponse(c1, peer, gtxid) = c1
                /\ AlreadyHaveTx(c1, gtxid) = c1
                /\ RequestedTx(c1, peer, gtxid, time) = [c |-> c1, aborted |-> TRUE]
                /\ OfTxhash(GetRequestable(c1, peer, time).c.tx, h) = {}
                /\ h \notin Hashes(GetRequestable(c1, peer, time).ret)
                /\ OfTxhash(DeletedPeer(c1, peer).tx, h) = {}
                /\ \A preferred \in BOOLEAN, overloaded \in BOOLEAN :
                    \A garbage \in GarbageFlags(c1.tx, h) :
                        LET r == ReceivedInv(c1, m_sequence, peer, gtxid, preferred,
                                             overloaded, time, garbage)
                        IN  /\ r.seq = m_sequence + 1
                            /\ Len(r.c.tx) = Len(c1.tx) + 1
                            /\ \E f \in OfTxhash(r.c.tx, h) :
                                /\ OfTxhash(r.c.tx, h) = {f}
                                /\ f.m_peer = peer
                                /\ f.m_sequence = m_sequence
                                /\ f.m_time = time
                                /\ f.m_preferred = preferred
                                /\ f.m_is_wtxid = gtxid.m_is_wtxid
                                /\ GetState(f) = CANDIDATE_DELAYED

\* A txhash with a REQUESTED and a COMPLETED announcement: AlreadyHaveTx
\* removes both, and the peer that had the request announces the txhash
\* again and is a candidate again.
C18_Witness ==
    \E e \in Entries(m_index) : \E f \in Entries(m_index) :
        /\ e.m_txhash = f.m_txhash
        /\ GetState(e) = REQUESTED
        /\ GetState(f) = COMPLETED
        /\ LET c1 == AlreadyHaveTx(TheContainer, GtxidOf(e))
               r == ReceivedInv(c1, m_sequence, e.m_peer, GtxidOf(e),
                                TRUE, FALSE, 0, 0)
           IN  /\ c1.tx = << >>
               /\ Len(r.c.tx) = 1
               /\ GetState(r.c.tx[1]) = CANDIDATE_DELAYED
               /\ r.c.tx[1].m_peer = e.m_peer

\* size_t CountInFlight(uint64_t peer) and size_t CountTracked(uint64_t peer).
CountInFlight(pi, peer) == IF peer \in DOMAIN pi THEN pi[peer].m_requested ELSE 0

CountTracked(pi, peer) == IF peer \in DOMAIN pi THEN pi[peer].m_total ELSE 0

\* ----------------------------------------------------------------------
\* C19: after DeletedPeer(p) no announcement of p remains and
\* CountTracked(p) = CountInFlight(p) = 0, whatever states the announcements
\* of p were in; an announcement of another peer is removed only if p
\* announced its txhash and every announcement of the txhash by a peer other
\* than p was COMPLETED; DeletedPeer for a peer without announcements
\* changes nothing.
\* ----------------------------------------------------------------------
C19_DeletedPeerRemovesPeerOnly ==
    \A peer \in CallPeers :
        LET r == DeletedPeer(TheContainer, peer)
        IN  /\ \A e \in Entries(r.tx) : e.m_peer # peer
            /\ CountTracked(r.pi, peer) = 0
            /\ CountInFlight(r.pi, peer) = 0
            /\ \A e \in Entries(m_index) :
                (e.m_peer # peer /\ \A f \in Entries(r.tx) : f.m_sequence # e.m_sequence)
                    => /\ \E g \in OfTxhash(m_index, e.m_txhash) : g.m_peer = peer
                       /\ \A f \in OfTxhash(m_index, e.m_txhash) :
                            f.m_peer # peer => GetState(f) = COMPLETED
            /\ IdsOfPeer(m_index, peer) = {} => r = TheContainer

\* The peer has a REQUESTED announcement of a txhash whose only other
\* announcement is COMPLETED: DeletedPeer removes both and the peer's
\* counters read 0 afterwards.
C19_Witness ==
    \E e \in Entries(m_index) : \E f \in Entries(m_index) :
        /\ e.m_txhash = f.m_txhash
        /\ e.m_peer # f.m_peer
        /\ GetState(e) = REQUESTED
        /\ GetState(f) = COMPLETED
        /\ CountTracked(m_peerinfo, e.m_peer) = 1
        /\ CountInFlight(m_peerinfo, e.m_peer) = 1
        /\ DeletedPeer(TheContainer, e.m_peer).tx = << >>
        /\ CountTracked(DeletedPeer(TheContainer, e.m_peer).pi, e.m_peer) = 0

\* Exactly one announcement of txhash is CANDIDATE_BEST and none of the
\* CANDIDATE_READY/CANDIDATE_BEST announcements of txhash has a lower priority.
Reselected(tx, txhash) ==
    \E b \in OfTxhash(tx, txhash) :
        /\ GetState(b) = CANDIDATE_BEST
        /\ \A g \in OfTxhash(tx, txhash) :
            /\ GetState(g) = CANDIDATE_BEST => g = b
            /\ GetState(g) \in {CANDIDATE_READY, CANDIDATE_BEST}
                => ComputePriority(b) <= ComputePriority(g)

\* ----------------------------------------------------------------------
\* C20 as stated: when a txhash has CANDIDATE_READY announcements and its
\* selected announcement leaves the selected set through DeletedPeer for its
\* peer, ReceivedResponse for it, or expiry of its request inside
\* GetRequestable, then after the operation exactly one announcement of the
\* txhash is CANDIDATE_BEST, with the lowest priority among the txhash's
\* CANDIDATE_READY/CANDIDATE_BEST announcements.
\* ----------------------------------------------------------------------
C20_ReselectedAfterLeaving ==
    \A e \in Entries(m_index) :
        (/\ IsSelected(e)
         /\ \E f \in OfTxhash(m_index, e.m_txhash) : GetState(f) = CANDIDATE_READY)
        => /\ Reselected(DeletedPeer(TheContainer, e.m_peer).tx, e.m_txhash)
           /\ Reselected(ReceivedResponse(TheContainer, e.m_peer, GtxidOf(e)).tx,
                         e.m_txhash)
           /\ \A peer \in CallPeers, now \in Times :
                (GetState(e) = REQUESTED /\ e.m_time <= now)
                => Reselected(GetRequestable(TheContainer, peer, now).c.tx, e.m_txhash)

\* ----------------------------------------------------------------------
\* C20, amended: as C20 for DeletedPeer and ReceivedResponse; for a request
\* that expires inside GetRequestable(now) the reselection is guaranteed
\* when a CANDIDATE_READY announcement of the txhash has time <= now.  When
\* every candidate of the txhash has time > now (the clock went back, or the
\* request's expiry was set before their request times), the backward sweep
\* of SetTimePoint demotes them all and no announcement of the txhash is
\* CANDIDATE_BEST or CANDIDATE_READY when the call returns.
\* ----------------------------------------------------------------------
C20_ReselectedUnlessDemoted ==
    \A e \in Entries(m_index) :
        (/\ IsSelected(e)
         /\ \E f \in OfTxhash(m_index, e.m_txhash) : GetState(f) = CANDIDATE_READY)
        => /\ Reselected(DeletedPeer(TheContainer, e.m_peer).tx, e.m_txhash)
           /\ Reselected(ReceivedResponse(TheContainer, e.m_peer, GtxidOf(e)).tx,
                         e.m_txhash)
           /\ \A peer \in CallPeers, now \in Times :
                (GetState(e) = REQUESTED /\ e.m_time <= now)
                => LET tx == GetRequestable(TheContainer, peer, now).c.tx
                   IN  /\ GetState(EntryOf(tx, e.m_sequence)) = COMPLETED
                       /\ (\E f \in OfTxhash(m_index, e.m_txhash) :
                              GetState(f) = CANDIDATE_READY /\ f.m_time <= now)
                          => Reselected(tx, e.m_txhash)
                       /\ (\A f \in OfTxhash(m_index, e.m_txhash) :
                              IsCandidate(f) => f.m_time > now)
                          => \A g \in OfTxhash(tx, e.m_txhash) :
                                GetState(g) \in {CANDIDATE_DELAYED, COMPLETED}

\* A REQUESTED announcement and two CANDIDATE_READY ones of the same
\* txhash with different priorities, all with time <= now: each of the three
\* operations leaves the lower-priority one CANDIDATE_BEST and the other
\* CANDIDATE_READY.
C20_Witness ==
    \E e \in Entries(m_index) : \E f \in Entries(m_index) :
    \E g \in Entries(m_index) : \E now \in Times :
        /\ e.m_txhash = f.m_txhash /\ e.m_txhash = g.m_txhash
        /\ GetState(e) = REQUESTED /\ e.m_time <= now
        /\ GetState(f) = CANDIDATE_READY /\ f.m_time <= now
        /\ GetState(g) = CANDIDATE_READY /\ g.m_time <= now
        /\ ComputePriority(f) < ComputePriority(g)
        /\ \A tx \in {GetRequestable(TheContainer, g.m_peer, now).c.tx,
                      DeletedPeer(TheContainer, e.m_peer).tx,
                      ReceivedResponse(TheContainer, e.m_peer, GtxidOf(e)).tx} :
            /\ GetState(EntryOf(tx, f.m_sequence)) = CANDIDATE_BEST
            /\ GetState(EntryOf(tx, g.m_sequence)) = CANDIDATE_READY

\* ----------------------------------------------------------------------
\* C21: ReceivedResponse(peer, gtxid) turns the announcement of
\* (peer, txhash), in whichever of CANDIDATE_DELAYED, CANDIDATE_READY,
\* CANDIDATE_BEST or REQUESTED and of whichever flavor, into COMPLETED, or
\* deletes every announcement of the txhash when no other non-COMPLETED one
\* remains; the other announcements are kept; it changes nothing when the
\* announcement does not exist or is COMPLETED; applying it twice equals
\* applying it once.
\* ----------------------------------------------------------------------
C21_ReceivedResponseCompletes ==
    \A peer \in CallPeers, gtxid \in Gtxids :
        LET r == ReceivedResponse(TheContainer, peer, gtxid)
            mine == {e \in OfTxhash(m_index, gtxid.m_hash) : e.m_peer = peer}
            others == {e \in OfTxhash(m_index, gtxid.m_hash) : e.m_peer # peer}
        IN  /\ ReceivedResponse(r, peer, gtxid) = r
            /\ (\A e \in mine : GetState(e) = COMPLETED) => r = TheContainer
            /\ \A e \in mine :
                GetState(e) # COMPLETED
                => IF \A f \in others : GetState(f) = COMPLETED
                   THEN /\ r.tx = Without(m_index, gtxid.m_hash)
                        /\ r.pi = CountedPeerInfo(r.tx)
                   ELSE /\ {f.m_sequence : f \in Entries(r.tx)}
                              = {f.m_sequence : f \in Entries(m_index)}
                        /\ GetState(EntryOf(r.tx, e.m_sequence)) = COMPLETED
                        /\ \A f \in Entries(m_index) :
                            f.m_txhash # gtxid.m_hash => f \in Entries(r.tx)
                        /\ r.pi = CountedPeerInfo(r.tx)

\* A REQUESTED announcement made as txid, with a candidate of another peer
\* behind it, is answered with the wtxid flavor: it becomes COMPLETED and the
\* candidate stays.
C21_Witness ==
    \E e \in Entries(m_index) : \E f \in Entries(m_index) :
        /\ e.m_txhash = f.m_txhash
        /\ ~e.m_is_wtxid
        /\ GetState(e) = REQUESTED
        /\ IsCandidate(f)
        /\ LET r == ReceivedResponse(TheContainer, e.m_peer,
                                     [m_is_wtxid |-> TRUE, m_hash |-> e.m_txhash])
           IN  /\ GetState(EntryOf(r.tx, e.m_sequence)) = COMPLETED
               /\ IsCandidate(EntryOf(r.tx, f.m_sequence))

\* ----------------------------------------------------------------------
\* C22: a second GetRequestable(peer, now) with the same now, with no
\* operation in between, returns the same list as the first and leaves
\* every announcement (state, time, flags), both orderings and all counters
\* unchanged.
\* ----------------------------------------------------------------------
C22_GetRequestableTwice ==
    \A peer \in CallPeers, now \in Times :
        LET r1 == GetRequestable(TheContainer, peer, now)
            r2 == GetRequestable(r1.c, peer, now)
        IN  /\ r2.ret = r1.ret
            /\ r2.c = r1.c
            /\ SetTimePoint(r1.c, now) = r1.c

\* The first call at now changes the tracker (it promotes a CANDIDATE_DELAYED
\* announcement and completes an expired request) and returns a txhash; the
\* second call returns the same txhash.
C22_Witness ==
    \E e \in Entries(m_index) : \E f \in Entries(m_index) : \E now \in Times :
        /\ GetState(e) = CANDIDATE_DELAYED /\ e.m_time <= now
        /\ GetState(f) = REQUESTED /\ f.m_time <= now
        /\ LET r1 == GetRequestable(TheContainer, e.m_peer, now)
           IN  /\ r1.c # TheContainer
               /\ e.m_txhash \in Hashes(r1.ret)
               /\ GetRequestable(r1.c, e.m_peer, now).ret = r1.ret

\* ----------------------------------------------------------------------
\* C23: GetRequestable(peer, now) with a now earlier than an earlier time
\* point turns exactly the CANDIDATE_READY and CANDIDATE_BEST announcements
\* with reqtime > now back into CANDIDATE_DELAYED: when it returns, the
\* CANDIDATE_DELAYED announcements are the candidates with reqtime > now,
\* the candidates with reqtime <= now are selectable, and an announcement
\* that was REQUESTED or COMPLETED is REQUESTED, COMPLETED or deleted.
\* ----------------------------------------------------------------------
C23_BackwardSweep ==
    \A peer \in CallPeers, now \in Times :
        LET tx == GetRequestable(TheContainer, peer, now).c.tx
        IN  \A e \in Entries(m_index) :
                LET after == {f \in Entries(tx) : f.m_sequence = e.m_sequence}
                IN  /\ IsCandidate(e)
                        => \E f \in after :
                            /\ f.m_time = e.m_time
                            /\ IF e.m_time > now
                               THEN GetState(f) = CANDIDATE_DELAYED
                               ELSE IsSelectable(f)
                    /\ GetState(e) = REQUESTED
                        => \A f \in after :
                            /\ GetState(f) \in {REQUESTED, COMPLETED}
                            /\ GetState(f) = REQUESTED <=> e.m_time > now
                    /\ GetState(e) = COMPLETED
                        => \A f \in after : GetState(f) = COMPLETED

\* The clock went back: a CANDIDATE_BEST announcement has reqtime > now and
\* a CANDIDATE_READY one of the same txhash has reqtime <= now; the call
\* makes the first CANDIDATE_DELAYED and the second CANDIDATE_BEST.
C23_Witness ==
    \E e \in Entries(m_index) : \E f \in Entries(m_index) : \E now \in Times :
        /\ e.m_txhash = f.m_txhash
        /\ GetState(e) = CANDIDATE_BEST /\ e.m_time > now
        /\ GetState(f) = CANDIDATE_READY /\ f.m_time <= now
        /\ LET tx == GetRequestable(TheContainer, f.m_peer, now).c.tx
           IN  /\ GetState(EntryOf(tx, e.m_sequence)) = CANDIDATE_DELAYED
               /\ GetState(EntryOf(tx, f.m_sequence)) = CANDIDATE_BEST

\* ----------------------------------------------------------------------
\* C24: time comparisons are inclusive.  GetRequestable(peer, now) makes a
\* CANDIDATE_DELAYED announcement with reqtime = now selectable, and returns
\* it in that call when it is the peer's and becomes CANDIDATE_BEST (as it
\* does when it is the only announcement of its txhash); it completes a
\* REQUESTED announcement with exptime = now, and a candidate of that txhash
\* with reqtime <= now is reselected in the same call.
\* ----------------------------------------------------------------------
C24_InclusiveTimes ==
    \A now \in Times : \A e \in Entries(m_index) :
        LET r == GetRequestable(TheContainer, e.m_peer, now)
            after == {f \in Entries(r.c.tx) : f.m_sequence = e.m_sequence}
        IN  /\ (GetState(e) = CANDIDATE_DELAYED /\ e.m_time = now)
                => \E f \in after :
                    /\ IsSelectable(f)
                    /\ GetState(f) = CANDIDATE_BEST <=> e.m_txhash \in Hashes(r.ret)
                    /\ OfTxhash(m_index, e.m_txhash) = {e}
                        => GetState(f) = CANDIDATE_BEST
            /\ (GetState(e) = REQUESTED /\ e.m_time = now)
                => /\ \A f \in after : GetState(f) = COMPLETED
                   /\ (\E g \in OfTxhash(m_index, e.m_txhash) :
                          IsCandidate(g) /\ g.m_time <= now)
                      => Reselected(r.c.tx, e.m_txhash)

\* A request with exptime = now and a CANDIDATE_DELAYED announcement of the
\* same txhash with reqtime = now: the call completes the first, promotes
\* the second to CANDIDATE_BEST and returns it to its peer.
C24_Witness ==
    \E e \in Entries(m_index) : \E f \in Entries(m_index) : \E now \in Times :
        /\ e.m_txhash = f.m_txhash
        /\ GetState(e) = CANDIDATE_DELAYED /\ e.m_time = now
        /\ GetState(f) = REQUESTED /\ f.m_time = now
        /\ LET r == GetRequestable(TheContainer, e.m_peer, now)
           IN  /\ GetState(EntryOf(r.c.tx, e.m_sequence)) = CANDIDATE_BEST
               /\ GetState(EntryOf(r.c.tx, f.m_sequence)) = COMPLETED
               /\ r.ret = <<GtxidOf(e)>>

\* The announcements of the txhashes other than txhash are the same in tx1
\* and tx2.
OthersKept(tx1, tx2, txhash) ==
    {e \in Entries(tx1) : e.m_txhash # txhash} = {e \in Entries(tx2) : e.m_txhash # txhash}

\* ----------------------------------------------------------------------
\* C25: the announcements returned by GetRequestable(peer, now) are
\* CANDIDATE_BEST when it returns; RequestedTx and AlreadyHaveTx for one
\* txhash leave the announcements of every other txhash unchanged; so
\* RequestedTx(peer, g, .) for the members g of the returned list, in any
\* order and with AlreadyHaveTx for other txhashes in between, does not
\* abort.
\* ----------------------------------------------------------------------
C25_RequestableStaysRequestable ==
    /\ \A gtxid \in Gtxids :
        /\ OthersKept(m_index, AlreadyHaveTx(TheContainer, gtxid).tx, gtxid.m_hash)
        /\ \A peer \in CallPeers, exptime \in Times :
            OthersKept(m_index, RequestedTx(TheContainer, peer, gtxid, exptime).c.tx,
                       gtxid.m_hash)
    /\ \A peer \in CallPeers, now \in Times :
        LET r == GetRequestable(TheContainer, peer, now)
            L == {r.ret[i] : i \in 1..Len(r.ret)}
        IN  \A g \in L :
                /\ \E e \in OfTxhash(r.c.tx, g.m_hash) :
                    e.m_peer = peer /\ GetState(e) = CANDIDATE_BEST
                /\ \A t1 \in Times :
                    LET r1 == RequestedTx(r.c, peer, g, t1)
                    IN  /\ ~r1.aborted
                        /\ \A a \in Gtxids : a.m_hash # g.m_hash
                            => ~RequestedTx(AlreadyHaveTx(r.c, a), peer, g, t1).aborted
                        /\ \A h \in L \ {g} : \A a \in Gtxids : \A t2 \in Times :
                            /\ ~RequestedTx(r1.c, peer, h, t2).aborted
                            /\ a.m_hash # h.m_hash
                                => ~RequestedTx(AlreadyHaveTx(r1.c, a), peer, h, t2).aborted

\* GetRequestable returns two txhashes to a peer; the second is requested
\* first, AlreadyHaveTx is called for it, and the first is requested after
\* that.
C25_Witness ==
    \E peer \in Peers, now \in Times :
        LET r == GetRequestable(TheContainer, peer, now)
        IN  /\ Len(r.ret) = 2
            /\ r.c # TheContainer
            /\ LET r1 == RequestedTx(r.c, peer, r.ret[2], now)
                   c2 == AlreadyHaveTx(r1.c, r.ret[2])
                   r3 == RequestedTx(c2, peer, r.ret[1], now)
               IN  /\ ~r1.aborted
                   /\ ~r3.aborted
                   /\ Len(r3.c.tx) = 1
                   /\ GetState(r3.c.tx[1]) = REQUESTED

\* size_t Size() const.
Size(tx) == Len(tx)

\* ----------------------------------------------------------------------
\* C26: after every public operation CountTracked(p) is the number of
\* announcements of peer p in any state, CountInFlight(p) the number of its
\* REQUESTED announcements, Size() the number of announcements, and the
\* per-peer map has a row exactly for the peers with an announcement.
\* ----------------------------------------------------------------------
C26_CountersMatch ==
    /\ \A p \in CallPeers :
        /\ CountTracked(m_peerinfo, p)
            = Cardinality({e \in Entries(m_index) : e.m_peer = p})
        /\ CountInFlight(m_peerinfo, p)
            = Cardinality({e \in Entries(m_index) :
                              e.m_peer = p /\ GetState(e) = REQUESTED})
    /\ Size(m_index) = Cardinality({e.m_sequence : e \in Entries(m_index)})
    /\ Size(m_index) = Len(m_bytime)
    /\ DOMAIN m_peerinfo = {e.m_peer : e \in Entries(m_index)}

\* One peer has a REQUESTED announcement, another a COMPLETED one, and a
\* third peer has no row and reads 0.
C26_Witness ==
    \E e \in Entries(m_index) : \E f \in Entries(m_index) :
        /\ GetState(e) = REQUESTED
        /\ GetState(f) = COMPLETED
        /\ CountInFlight(m_peerinfo, e.m_peer) = 1
        /\ CountTracked(m_peerinfo, f.m_peer) = 1
        /\ CountInFlight(m_peerinfo, f.m_peer) = 0
        /\ Size(m_index) = 2
        /\ \E p \in CallPeers : p \notin DOMAIN m_peerinfo /\ CountTracked(m_peerinfo, p) = 0

\* ----------------------------------------------------------------------
\* C27 as stated: after every public operation, for every txhash with a
\* CANDIDATE_READY announcement, its one selected announcement, whether
\* CANDIDATE_BEST or REQUESTED, has a priority <= the priority of every
\* CANDIDATE_READY announcement of that txhash.
\* ----------------------------------------------------------------------
C27_SelectedHasLowestPriority ==
    \A r \in Entries(m_index) :
        GetState(r) = CANDIDATE_READY
        => \E s \in OfTxhash(m_index, r.m_txhash) :
            /\ IsSelected(s)
            /\ \A o \in OfTxhash(m_index, r.m_txhash) : IsSelected(o) => o = s
            /\ ComputePriority(s) <= ComputePriority(r)

\* ----------------------------------------------------------------------
\* C27, amended: after every public operation, a txhash with a
\* CANDIDATE_READY announcement has exactly one selected announcement, and
\* when that one is CANDIDATE_BEST its priority is <= the priority of every
\* CANDIDATE_READY announcement of the txhash.  A REQUESTED announcement is
\* not compared: a CANDIDATE_DELAYED announcement of its txhash that comes
\* due becomes CANDIDATE_READY whatever its priority, and the request stays.
\* ----------------------------------------------------------------------
C27_BestNotRequestedHasLowest ==
    /\ \A r \in Entries(m_index) :
        GetState(r) = CANDIDATE_READY
        => \E s \in OfTxhash(m_index, r.m_txhash) :
            /\ IsSelected(s)
            /\ \A o \in OfTxhash(m_index, r.m_txhash) : IsSelected(o) => o = s
            /\ GetState(s) = CANDIDATE_BEST
                => ComputePriority(s) <= ComputePriority(r)
    /\ \A peer \in CallPeers, now \in Times :
        \A s \in Entries(m_index) : \A d \in OfTxhash(m_index, s.m_txhash) :
            (/\ GetState(s) = REQUESTED /\ s.m_time > now
             /\ GetState(d) = CANDIDATE_DELAYED /\ d.m_time <= now)
            => LET tx == GetRequestable(TheContainer, peer, now).c.tx
               IN  /\ GetState(EntryOf(tx, s.m_sequence)) = REQUESTED
                   /\ GetState(EntryOf(tx, d.m_sequence)) = CANDIDATE_READY

\* A REQUESTED announcement and a CANDIDATE_DELAYED one of the same txhash
\* with a lower priority: GetRequestable makes the second CANDIDATE_READY
\* and leaves the first REQUESTED.
C27_Witness ==
    \E s \in Entries(m_index) : \E d \in Entries(m_index) : \E now \in Times :
        /\ s.m_txhash = d.m_txhash
        /\ GetState(s) = REQUESTED /\ s.m_time > now
        /\ GetState(d) = CANDIDATE_DELAYED /\ d.m_time <= now
        /\ ComputePriority(d) < ComputePriority(s)
        /\ LET tx == GetRequestable(TheContainer, d.m_peer, now).c.tx
           IN  /\ GetState(EntryOf(tx, s.m_sequence)) = REQUESTED
               /\ GetState(EntryOf(tx, d.m_sequence)) = CANDIDATE_READY

\* ----------------------------------------------------------------------
\* C28: RegisterPeer(p, inbound, they_initiate, they_respond, version, salt)
\* returns true iff p is pre-registered (it has a local salt: PreRegisterPeer
\* adds it, ForgetPeer removes it, RegisterPeer keeps it), p is not
\* registered, version >= 1 and the offered role fits the direction (an
\* inbound peer offers to initiate or an outbound peer offers to respond);
\* when it returns false the registered peers, the salts and the queue are
\* unchanged, and when it returns true p is registered.
\* ----------------------------------------------------------------------
C28_RegisterPeerAccepts ==
    \A p \in NodeIds, inbound \in BOOLEAN :
        /\ \A rand \in ReconSalts :
            DOMAIN PreRegisterPeer(TheRecon, p, inbound, rand).rc.salts
                = DOMAIN m_local_salts \cup {p}
        /\ DOMAIN ForgetPeer(TheRecon, p).salts = DOMAIN m_local_salts \ {p}
        /\ \A ti \in BOOLEAN, tr \in BOOLEAN, version \in Versions, salt \in ReconSalts :
            LET r == RegisterPeer(TheRecon, p, inbound, ti, tr, version, salt)
            IN  /\ r.ret <=> /\ p \in DOMAIN m_local_salts
                             /\ ~IsPeerRegistered(TheRecon, p)
                             /\ version >= 1
                             /\ (inbound /\ ti) \/ (~inbound /\ tr)
                /\ ~r.ret => r.rc = TheRecon
                /\ r.ret => IsPeerRegistered(r.rc, p)
                /\ r.rc.salts = m_local_salts

\* One peer is registered, another only pre-registered: the second is
\* accepted with a version above ours and refused with both roles false,
\* the first is refused.
C28_Witness ==
    \E p \in NodeIds, q \in NodeIds :
        /\ p \in DOMAIN m_local_salts /\ ~IsPeerRegistered(TheRecon, p)
        /\ IsPeerRegistered(TheRecon, q)
        /\ RegisterPeer(TheRecon, p, TRUE, TRUE, FALSE, MaxVersion, 0).ret
        /\ ~RegisterPeer(TheRecon, p, TRUE, FALSE, FALSE, 1, 0).ret
        /\ ~RegisterPeer(TheRecon, q, TRUE, TRUE, FALSE, 1, 0).ret

\* ----------------------------------------------------------------------
\* C29: IsPeerRegistered(p) is true exactly from a successful
\* RegisterPeer(p) until the next ForgetPeer(p).  In every reachable state:
\* PreRegisterPeer registers nobody; RegisterPeer(p) registers p when it
\* returns true and nobody otherwise; ForgetPeer(p) unregisters p and only
\* p; after ForgetPeer(p) every RegisterPeer(p) fails, PreRegisterPeer(p)
\* does not abort, and a RegisterPeer(p) that follows it succeeds.
\* ----------------------------------------------------------------------
C29_RegisteredFromRegisterToForget ==
    \A p \in NodeIds :
        LET f == ForgetPeer(TheRecon, p)
        IN  /\ DOMAIN f.states = DOMAIN m_states \ {p}
            /\ ~IsPeerRegistered(f, p)
            /\ \A inbound \in BOOLEAN, rand \in ReconSalts :
                LET pre == PreRegisterPeer(TheRecon, p, inbound, rand)
                    again == PreRegisterPeer(f, p, inbound, rand)
                IN  /\ pre.rc.states = m_states
                    /\ ~again.aborted
                    /\ ~IsPeerRegistered(again.rc, p)
                    /\ \A version \in Versions, salt \in ReconSalts :
                        /\ IsPeerRegistered(
                               RegisterPeer(again.rc, p, inbound, inbound, ~inbound,
                                            version, salt).rc, p) <=> version >= 1
                        /\ \A ti \in BOOLEAN, tr \in BOOLEAN :
                            LET r == RegisterPeer(TheRecon, p, inbound, ti, tr, version, salt)
                            IN  /\ DOMAIN r.rc.states
                                    = DOMAIN m_states \cup (IF r.ret THEN {p} ELSE {})
                                /\ ~RegisterPeer(f, p, inbound, ti, tr, version, salt).ret

\* A registered peer and a peer that is only pre-registered: ForgetPeer
\* unregisters the first, makes RegisterPeer fail for both, and each can be
\* pre-registered and registered again.
C29_Witness ==
    \E p \in NodeIds, q \in NodeIds :
        /\ IsPeerRegistered(TheRecon, p)
        /\ q \in DOMAIN m_local_salts /\ ~IsPeerRegistered(TheRecon, q)
        /\ RegisterPeer(TheRecon, q, TRUE, TRUE, FALSE, 1, 1).ret
        /\ ~RegisterPeer(ForgetPeer(TheRecon, q), q, TRUE, TRUE, FALSE, 1, 1).ret
        /\ LET f == ForgetPeer(TheRecon, p)
               again == PreRegisterPeer(f, p, TRUE, 0)
           IN  /\ ~IsPeerRegistered(f, p)
               /\ ~RegisterPeer(f, p, TRUE, TRUE, FALSE, 1, 1).ret
               /\ ~again.aborted
               /\ RegisterPeer(again.rc, p, TRUE, TRUE, FALSE, 1, 1).ret

\* ----------------------------------------------------------------------
\* C30: the first single-element Allocate<T>(1) sets the chunk size to
\* CalcRequiredChunkSizeBytes<T>() and allocates one block, and the chunk
\* size stays; Deallocate of a pool chunk adds one chunk to the free list;
\* the next single-element Allocate of any type with that required chunk
\* size returns the chunk freed last, takes one chunk off the free list and
\* allocates no block; NumBlocks never decreases.
\* ----------------------------------------------------------------------
C30_FreeListReuse ==
    /\ ChunkSize(TheResource) = 0 => NumBlocks(TheResource) = 0
    /\ \A T \in Types, n \in Counts :
        LET r == Allocate(TheResource, T, n)
        IN  /\ NumBlocks(r.mr) >= NumBlocks(TheResource)
            /\ ChunkSize(TheResource) # 0 => ChunkSize(r.mr) = ChunkSize(TheResource)
            /\ (ChunkSize(TheResource) = 0 /\ n = 1)
                => /\ ChunkSize(r.mr) = CalcRequiredChunkSizeBytes(T)
                   /\ NumBlocks(r.mr) = 1
                   /\ r.ptr = r.mr.blocks[1]
            /\ (ChunkSize(TheResource) = 0 /\ n # 1)
                => ChunkSize(r.mr) = 0 /\ NumBlocks(r.mr) = 0
    /\ \A l \in live : \A T \in Types :
        CalcRequiredChunkSizeBytes(T) = CalcRequiredChunkSizeBytes(l.T)
        => LET d == Deallocate(TheResource, l.p, T, l.n)
               pool == l.n = 1 /\ CalcRequiredChunkSizeBytes(l.T) = ChunkSize(TheResource)
           IN  /\ NumBlocks(d) = NumBlocks(TheResource)
               /\ ~pool => d = TheResource
               /\ pool
                   => /\ NumFreeChunks(d) = NumFreeChunks(TheResource) + 1
                      /\ \A U \in Types :
                            CalcRequiredChunkSizeBytes(U) = ChunkSize(d)
                            => LET r == Allocate(d, U, 1)
                               IN  /\ r.ptr = l.p
                                   /\ NumFreeChunks(r.mr) = NumFreeChunks(d) - 1
                                   /\ NumBlocks(r.mr) = NumBlocks(d)
                                   /\ r.mr.heap = d.heap

\* A chunk handed out for char while the free list holds another chunk: it
\* is given back as char and handed out again for void*.
C30_Witness ==
    \E l \in live :
        /\ l.T = [size |-> 1, align |-> 1] /\ l.n = 1
        /\ ChunkSize(TheResource) = CalcRequiredChunkSizeBytes(l.T)
        /\ NumFreeChunks(TheResource) = 1
        /\ NumBlocks(TheResource) = 1
        /\ LET d == Deallocate(TheResource, l.p, l.T, 1)
               r == Allocate(d, [size |-> 8, align |-> 8], 1)
           IN  /\ NumFreeChunks(d) = 2
               /\ r.ptr = l.p
               /\ NumFreeChunks(r.mr) = 1
               /\ NumBlocks(r.mr) = 1

\* ----------------------------------------------------------------------
\* C31: CalcRequiredChunkSizeBytes<T>() is the smallest multiple of
\* max(alignof(T), alignof(ChunkNode)) that is >= max(sizeof(T),
\* sizeof(ChunkNode)), for every size and alignment of T; with 8-byte
\* pointers size 1 align 1 gives 8, size 17 align 1 gives 24 and size 17
\* align 16 gives 32.  The chunk size the pool has taken is that value for
\* the type of each live allocation that lies in a block.
\* ----------------------------------------------------------------------
SmallestMultiple(r, a, s) ==
    /\ r % a = 0
    /\ r >= s
    /\ \A m \in s..(r - 1) : m % a # 0

InBlock(p) ==
    \E i \in 1..Len(m_allocated_blocks) :
        /\ m_allocated_blocks[i] <= p
        /\ p < m_allocated_blocks[i]
               + (m_block_size_bytes \div m_chunk_size_bytes) * m_chunk_size_bytes

C31_ChunkSizeIsSmallestMultiple ==
    /\ \A T \in AllTypes :
        SmallestMultiple(CalcRequiredChunkSizeBytes(T),
                         Max(T.align, AlignofChunkNode),
                         Max(T.size, SizeofChunkNode))
    /\ CalcRequiredChunkSizeBytes([size |-> 1, align |-> 1]) = 8
    /\ CalcRequiredChunkSizeBytes([size |-> 17, align |-> 1]) = 24
    /\ CalcRequiredChunkSizeBytes([size |-> 17, align |-> 16]) = 32
    /\ \A l \in live :
        (m_chunk_size_bytes # 0 /\ InBlock(l.p)) =>
            SmallestMultiple(m_chunk_size_bytes,
                             Max(l.T.align, AlignofChunkNode),
                             Max(l.T.size, SizeofChunkNode))

\* A type of size 17 and alignment 1 was allocated first: the pool's chunk
\* size is 24 and the allocation lies in a block.
C31_Witness ==
    /\ m_chunk_size_bytes = 24
    /\ \E l \in live :
        /\ l.T = [size |-> 17, align |-> 1]
        /\ InBlock(l.p)

\* SanityCheck's m_or_all_per_txhash: the OR of the m_per_txhash of all
\* entries of txhash.
OrAllPerTxhash(tx, txhash) ==
    LET bit(b) == IF \E e \in OfTxhash(tx, txhash) : BitAnd(e.m_per_txhash, b) # 0
                  THEN b ELSE 0
    IN  bit(TXHASHINFO_NO_MORE_PREFERRED_FIRST)
            + bit(TXHASHINFO_NO_MORE_NONPREFERRED_FIRST)

\* ----------------------------------------------------------------------
\* C32: after every public operation, for every tracked txhash, the
\* m_per_txhash of its last entry in ByTxHash order is the OR of the
\* m_per_txhash of all its entries; it has NO_MORE_PREFERRED_FIRST when an
\* entry is preferred with first set, NO_MORE_NONPREFERRED_FIRST when an
\* entry is non-preferred with first set, and both when an entry is
\* REQUESTED.  No public call clears a flag of a txhash that is tracked
\* before and after the call, whether the last entry moved or was erased.
\* ----------------------------------------------------------------------
C32_FlagsOnLastEntry ==
    /\ \A h \in TxHashes :
        OfTxhash(m_index, h) # {} =>
            LET last == LastFlags(m_index, h)
            IN  /\ last = OrAllPerTxhash(m_index, h)
                /\ \A e \in OfTxhash(m_index, h) :
                    /\ e.m_first => BitAnd(last, ClassFlag(e.m_preferred)) # 0
                    /\ GetState(e) = REQUESTED =>
                          last = BitOr(TXHASHINFO_NO_MORE_PREFERRED_FIRST,
                                       TXHASHINFO_NO_MORE_NONPREFERRED_FIRST)
    /\ \A k \in Calls : \A h \in TxHashes :
        (OfTxhash(m_index, h) # {} /\ OfTxhash(k.c.tx, h) # {}) =>
            BitAnd(LastFlags(k.c.tx, h), LastFlags(m_index, h)) = LastFlags(m_index, h)

\* A txhash with two announcements whose last entry carries both flags
\* while the other entry does not, no entry being REQUESTED: when the peer
\* of the last entry is deleted, the remaining entry carries both flags.
C32_Witness ==
    \E h \in TxHashes : \E e \in OfTxhash(m_index, h) :
        /\ Cardinality(OfTxhash(m_index, h)) = 2
        /\ e = m_index[CHOOSE i \in 1..Len(m_index) :
                          /\ m_index[i].m_txhash = h
                          /\ \A j \in 1..Len(m_index) :
                                 m_index[j].m_txhash = h => j <= i]
        /\ e.m_per_txhash = 3
        /\ \A f \in OfTxhash(m_index, h) :
             /\ GetState(f) # REQUESTED
             /\ f # e => f.m_per_txhash # 3
        /\ LET c == DeletedPeer(TheContainer, e.m_peer)
           IN  /\ Cardinality(OfTxhash(c.tx, h)) = 1
               /\ LastFlags(c.tx, h) = 3

\* Whether txhash sorts before every entry of a container that is not
\* empty: lower_bound(EntryTxHash{txhash, TOO_LARGE, 0}) is begin().
BeforeAll(tx, txhash) ==
    Len(tx) > 0 /\ LowerBound(TxKeys(tx), <<txhash, TOO_LARGE, 0>>) = 1

\* ----------------------------------------------------------------------
\* C33: ReceivedInv for a txhash that has no announcement takes the
\* per-txhash flags as 0, so the announcement it creates has first set
\* exactly when overloaded is false, in every state of the tracker and
\* wherever the txhash sorts among the tracked ones.
\* ----------------------------------------------------------------------
C33_UntrackedGetsFirst ==
    \A gtxid \in WideGtxids, peer \in CallPeers, preferred \in BOOLEAN,
       overloaded \in BOOLEAN, reqtime \in Times :
        OfTxhash(m_index, gtxid.m_hash) = {} =>
            \A garbage \in GarbageFlags(m_index, gtxid.m_hash) :
                \E f \in Created(ReceivedInv(TheContainer, m_sequence, peer, gtxid,
                                             preferred, overloaded, reqtime,
                                             garbage).c.tx, m_sequence) :
                    f.m_first = ~overloaded

\* C33, as the code has it: the announcement created for a txhash that has
\* no announcement has first set exactly when overloaded is false, when the
\* tracker is empty or some tracked txhash sorts before the new one; when
\* the new txhash sorts before every tracked one, the flags are those of
\* the read before begin(), and first follows them.
C33_UntrackedGetsFirstUnlessBeforeAll ==
    \A gtxid \in WideGtxids, peer \in CallPeers, preferred \in BOOLEAN,
       overloaded \in BOOLEAN, reqtime \in Times :
        OfTxhash(m_index, gtxid.m_hash) = {} =>
            \A garbage \in GarbageFlags(m_index, gtxid.m_hash) :
                \E f \in Created(ReceivedInv(TheContainer, m_sequence, peer, gtxid,
                                             preferred, overloaded, reqtime,
                                             garbage).c.tx, m_sequence) :
                    /\ ~BeforeAll(m_index, gtxid.m_hash) =>
                          garbage = 0 /\ f.m_first = ~overloaded
                    /\ BeforeAll(m_index, gtxid.m_hash) =>
                          f.m_first = (~overloaded
                                       /\ BitAnd(garbage, ClassFlag(preferred)) = 0)
                    /\ overloaded => ~f.m_first

\* A txhash without announcement sorts before every tracked one and another
\* one sorts after every tracked one.  A preferred peer that is not
\* overloaded announces them: the announcement of the second has first
\* set; that of the first has not, when the read before begin() yields
\* NO_MORE_PREFERRED_FIRST.
C33_Witness ==
    \E gtxid \in WideGtxids : \E after \in WideGtxids :
        /\ OfTxhash(m_index, gtxid.m_hash) = {}
        /\ BeforeAll(m_index, gtxid.m_hash)
        /\ TXHASHINFO_NO_MORE_PREFERRED_FIRST \in GarbageFlags(m_index, gtxid.m_hash)
        /\ \E f \in Created(ReceivedInv(TheContainer, m_sequence, 1, gtxid, TRUE,
                                         FALSE, 0, TXHASHINFO_NO_MORE_PREFERRED_FIRST
                                         ).c.tx, m_sequence) :
               ~f.m_first
        /\ \A e \in Entries(m_index) : e.m_txhash < after.m_hash
        /\ \E f \in Created(ReceivedInv(TheContainer, m_sequence, 1, after, TRUE,
                                         FALSE, 0, 0).c.tx, m_sequence) :
               f.m_first

\* The containers the public calls other than ReceivedInv leave, for all
\* arguments.
AfterCall ==
    {DeletedPeer(TheContainer, peer) : peer \in Peers}
    \cup {AlreadyHaveTx(TheContainer, gtxid) : gtxid \in Gtxids}
    \cup {ReceivedResponse(TheContainer, peer, gtxid) : peer \in Peers, gtxid \in Gtxids}
    \cup {RequestedTx(TheContainer, peer, gtxid, exptime).c
              : peer \in Peers, gtxid \in Gtxids, exptime \in Times}
    \cup {GetRequestable(TheContainer, peer, now).c : peer \in Peers, now \in Times}

\* ----------------------------------------------------------------------
\* C34: when a call (AlreadyHaveTx, DeletedPeer, or a ReceivedResponse or
\* GetRequestable that leaves only COMPLETED announcements) deletes every
\* announcement of a txhash, the first-marker history of the txhash is
\* forgotten: the next ReceivedInv for it by a peer that is not overloaded
\* creates an announcement with first set, even when the txhash had been
\* requested.
\* ----------------------------------------------------------------------
C34_FirstAgainAfterForgotten ==
    \A gtxid \in Gtxids :
        OfTxhash(m_index, gtxid.m_hash) # {} =>
            \A c \in {d \in AfterCall : OfTxhash(d.tx, gtxid.m_hash) = {}} :
                \A peer \in CallPeers, preferred \in BOOLEAN :
                    \A garbage \in GarbageFlags(c.tx, gtxid.m_hash) :
                        \E f \in Created(ReceivedInv(c, m_sequence, peer, gtxid,
                                                     preferred, FALSE, 0, garbage
                                                     ).c.tx, m_sequence) :
                            f.m_first

\* C34, as the code has it: the announcement created after the deletion has
\* first set when the tracker is left empty or some tracked txhash sorts
\* before the deleted one, whatever flags the txhash had; when the deleted
\* txhash sorts before every tracked one, first follows the flags of the
\* read before begin().
C34_FirstAgainUnlessBeforeAll ==
    \A gtxid \in Gtxids :
        OfTxhash(m_index, gtxid.m_hash) # {} =>
            \A c \in {d \in AfterCall : OfTxhash(d.tx, gtxid.m_hash) = {}} :
                \A peer \in CallPeers, preferred \in BOOLEAN :
                    \A garbage \in GarbageFlags(c.tx, gtxid.m_hash) :
                        \E f \in Created(ReceivedInv(c, m_sequence, peer, gtxid,
                                                     preferred, FALSE, 0, garbage
                                                     ).c.tx, m_sequence) :
                            /\ ~BeforeAll(c.tx, gtxid.m_hash) => f.m_first
                            /\ BeforeAll(c.tx, gtxid.m_hash) =>
                                  f.m_first = (BitAnd(garbage, ClassFlag(preferred)) = 0)
                            /\ f.m_per_txhash =
                                  BitOr(garbage,
                                        IF f.m_first THEN ClassFlag(preferred) ELSE 0)

\* A txhash whose only announcement is REQUESTED and carries both flags,
\* and another tracked txhash that sorts after it: the response of the
\* peer deletes the announcement, and the next announcement of the txhash
\* is created with first set when the read before begin() yields no flag
\* and without it when the read yields both flags.
C34_Witness ==
    \E e \in Entries(m_index) : \E g \in Entries(m_index) :
        /\ GetState(e) = REQUESTED
        /\ OfTxhash(m_index, e.m_txhash) = {e}
        /\ e.m_per_txhash = NoMoreFirst
        /\ e.m_txhash < g.m_txhash
        /\ LET c == ReceivedResponse(TheContainer, e.m_peer, GtxidOf(e))
           IN  /\ OfTxhash(c.tx, e.m_txhash) = {}
               /\ BeforeAll(c.tx, e.m_txhash)
               /\ \E f \in Created(ReceivedInv(c, m_sequence, e.m_peer, GtxidOf(e),
                                                e.m_preferred, FALSE, 0, 0).c.tx,
                                    m_sequence) : f.m_first
               /\ \E f \in Created(ReceivedInv(c, m_sequence, e.m_peer, GtxidOf(e),
                                                e.m_preferred, FALSE, 0, NoMoreFirst
                                                ).c.tx, m_sequence) : ~f.m_first

\* ----------------------------------------------------------------------
\* C35: transitions driven by time happen in GetRequestable only.  Under
\* every other call a CANDIDATE_DELAYED announcement that is kept stays
\* CANDIDATE_DELAYED and a REQUESTED announcement that is kept stays
\* REQUESTED, with the same time, unless the call is the ReceivedResponse
\* of its peer for its txhash, whatever their times; an announcement is
\* created CANDIDATE_DELAYED whatever its reqtime; a REQUESTED announcement
\* is counted by CountInFlight and no other announcement of its txhash is
\* selected or returned.  GetRequestable(peer, now)
\* leaves the same container for every peer: in it every announcement that
\* was REQUESTED with time <= now is COMPLETED or gone and every one that
\* was CANDIDATE_DELAYED with time <= now is CANDIDATE_READY or
\* CANDIDATE_BEST, for all peers and txhashes.
\* ----------------------------------------------------------------------
C35_TimeOnlyInGetRequestable ==
    /\ \A k \in Calls : k.op # "GetRequestable" =>
        /\ \A e \in Entries(m_index) :
            (/\ GetState(e) \in {CANDIDATE_DELAYED, REQUESTED}
             /\ ~(/\ k.op = "ReceivedResponse"
                  /\ k.peer = e.m_peer
                  /\ k.txhash = e.m_txhash))
            => \A f \in Created(k.c.tx, e.m_sequence) :
                   GetState(f) = GetState(e) /\ f.m_time = e.m_time
        /\ k.op = "ReceivedInv" =>
              \A f \in Created(k.c.tx, m_sequence) : GetState(f) = CANDIDATE_DELAYED
    /\ \A e \in Entries(m_index) : GetState(e) = REQUESTED =>
        /\ CountInFlight(m_peerinfo, e.m_peer) >= 1
        /\ \A g \in OfTxhash(m_index, e.m_txhash) : g # e => ~IsSelected(g)
        /\ \A peer \in CallPeers :
             \A id \in Selected(m_index, peer) :
                 EntryOf(m_index, id).m_txhash # e.m_txhash
    /\ \A now \in Times :
        LET r == GetRequestable(TheContainer, 1, now).c
        IN  /\ \A peer \in CallPeers : GetRequestable(TheContainer, peer, now).c = r
            /\ \A e \in Entries(m_index) :
                /\ (GetState(e) = REQUESTED /\ e.m_time <= now) =>
                      \A f \in Created(r.tx, e.m_sequence) : GetState(f) = COMPLETED
                /\ (GetState(e) = CANDIDATE_DELAYED /\ e.m_time <= now) =>
                      \E f \in Created(r.tx, e.m_sequence) : IsSelectable(f)

\* A REQUESTED announcement of one peer and a CANDIDATE_DELAYED
\* announcement of another peer, both with time 0, are in the tracker: the
\* first is counted in flight; GetRequestable(now 0) for a peer that
\* announced nothing expires the first and promotes the second.
C35_Witness ==
    \E e \in Entries(m_index) : \E d \in Entries(m_index) :
        /\ GetState(e) = REQUESTED /\ e.m_time = 0
        /\ GetState(d) = CANDIDATE_DELAYED /\ d.m_time = 0
        /\ d.m_peer # e.m_peer
        /\ CountInFlight(m_peerinfo, e.m_peer) = 1
        /\ LET r == GetRequestable(TheContainer, MaxPeer + 1, 0).c
           IN  /\ \A f \in Created(r.tx, e.m_sequence) : GetState(f) = COMPLETED
               /\ \E f \in Created(r.tx, d.m_sequence) : GetState(f) = CANDIDATE_BEST
               /\ CountInFlight(r.pi, e.m_peer) = 0

\* ----------------------------------------------------------------------
\* The loops of the tracker, one iteration at a time.  A step is the test
\* of the loop's condition and one run of its body: more tells whether the
\* body ran.  A run makes steps until the condition fails or it has made
\* fuel iterations; done tells that the condition failed.
\* ----------------------------------------------------------------------
\* The do-while of MakeCompleted at position i: fuel counts the runs of
\* the body.
RECURSIVE EraseGroupRun(_, _, _, _)
EraseGroupRun(c, i, txhash, fuel) ==
    IF fuel = 0 THEN [c |-> c, done |-> FALSE]
    ELSE LET c1 == Erase(c, c.tx[i].m_sequence)
         IN  IF i <= Len(c1.tx) /\ c1.tx[i].m_txhash = txhash
             THEN EraseGroupRun(c1, i, txhash, fuel - 1)
             ELSE [c |-> c1, done |-> TRUE]

\* Whether MakeCompleted(it) takes the branch of the do-while.
DeletesGroup(c, id) ==
    LET i == PosOf(c.tx, id)
        it == c.tx[i]
    IN  /\ GetState(it) # COMPLETED
        /\ (i = 1 \/ c.tx[i - 1].m_txhash # it.m_txhash)
        /\ (\/ i = Len(c.tx)
            \/ c.tx[i + 1].m_txhash # it.m_txhash
            \/ GetState(c.tx[i + 1]) = COMPLETED)

\* MakeCompleted(it) finishes: its do-while, when taken, ends within as
\* many iterations as the txhash has entries, with the result MakeCompleted
\* has.
MakeCompletedFinishes(c, id) ==
    DeletesGroup(c, id) =>
        LET txhash == EntryOf(c.tx, id).m_txhash
            r == EraseGroupRun(c, PosOf(c.tx, id), txhash,
                               Cardinality(OfTxhash(c.tx, txhash)))
        IN  r.done /\ r.c = MakeCompleted(c, id).c

\* The first loop of SetTimePoint; inner tells that the MakeCompleted of
\* the body finished.
ForwardStep(c, now) ==
    IF Len(c.tx) = 0 THEN [c |-> c, more |-> FALSE, inner |-> TRUE]
    ELSE LET it == EntryOf(c.tx, c.tm[1])
         IN  IF GetState(it) = CANDIDATE_DELAYED /\ it.m_time <= now
             THEN [c |-> PromoteCandidateNew(c, it.m_sequence), more |-> TRUE,
                   inner |-> TRUE]
             ELSE IF GetState(it) = REQUESTED /\ it.m_time <= now
             THEN [c |-> MakeCompleted(c, it.m_sequence).c, more |-> TRUE,
                   inner |-> MakeCompletedFinishes(c, it.m_sequence)]
             ELSE [c |-> c, more |-> FALSE, inner |-> TRUE]

RECURSIVE ForwardRun(_, _, _)
ForwardRun(c, now, fuel) ==
    LET s == ForwardStep(c, now)
    IN  IF ~s.more THEN [c |-> c, done |-> TRUE]
        ELSE IF fuel = 0 \/ ~s.inner THEN [c |-> c, done |-> FALSE]
        ELSE ForwardRun(s.c, now, fuel - 1)

\* The second loop of SetTimePoint.
BackwardStep(c, now) ==
    IF Len(c.tx) = 0 THEN [c |-> c, more |-> FALSE]
    ELSE LET it == EntryOf(c.tx, c.tm[Len(c.tm)])
         IN  IF IsSelectable(it) /\ it.m_time > now
             THEN [c |-> ChangeAndReselect(c, it.m_sequence, CANDIDATE_DELAYED),
                   more |-> TRUE]
             ELSE [c |-> c, more |-> FALSE]

RECURSIVE BackwardRun(_, _, _)
BackwardRun(c, now, fuel) ==
    LET s == BackwardStep(c, now)
    IN  IF ~s.more THEN [c |-> c, done |-> TRUE]
        ELSE IF fuel = 0 THEN [c |-> c, done |-> FALSE]
        ELSE BackwardRun(s.c, now, fuel - 1)

\* The loop of DeletedPeer, with it as a sequence number (-1: end()).
RECURSIVE DeletedPeerRun(_, _, _)
DeletedPeerRun(c, id, fuel) ==
    IF id = -1 THEN [c |-> c, done |-> TRUE]
    ELSE IF fuel = 0 \/ ~MakeCompletedFinishes(c, id) THEN [c |-> c, done |-> FALSE]
    ELSE LET it_next == NextOfPeer(c.tx, id)
             r == MakeCompleted(c, id)
             c1 == IF r.exists THEN Erase(r.c, id) ELSE r.c
         IN  DeletedPeerRun(c1, it_next, fuel - 1)

\* The loop of AlreadyHaveTx at position i.
RECURSIVE AlreadyHaveTxRun(_, _, _, _)
AlreadyHaveTxRun(c, i, txhash, fuel) ==
    IF ~(i <= Len(c.tx) /\ c.tx[i].m_txhash = txhash) THEN [c |-> c, done |-> TRUE]
    ELSE IF fuel = 0 THEN [c |-> c, done |-> FALSE]
    ELSE AlreadyHaveTxRun(Erase(c, c.tx[i].m_sequence), i, txhash, fuel - 1)

\* The variants of the two loops of SetTimePoint: the waiting entries that
\* are due, and the selectable entries that are not.
ForwardVariant(c, now) ==
    Cardinality({e \in Entries(c.tx) : IsWaiting(e) /\ e.m_time <= now})

BackwardVariant(c, now) ==
    Cardinality({e \in Entries(c.tx) : IsSelectable(e) /\ e.m_time > now})

\* ----------------------------------------------------------------------
\* C36: every public operation terminates on every reachable state.  The
\* first loop of SetTimePoint ends within as many iterations as there are
\* due CANDIDATE_DELAYED and REQUESTED entries, the second within as many as
\* there are selectable entries later than now, the loop of DeletedPeer
\* within as many as the peer has entries, the loop of AlreadyHaveTx and
\* the do-while of MakeCompleted within as many as the txhash has entries;
\* each run ends with the container the operation leaves.
\* ----------------------------------------------------------------------
C36_LoopsFinish ==
    /\ \A now \in Times :
        LET f == ForwardRun(TheContainer, now, ForwardVariant(TheContainer, now))
            b == BackwardRun(f.c, now, BackwardVariant(f.c, now))
        IN  /\ f.done
            /\ f.c = SetTimePointForward(TheContainer, now)
            /\ b.done
            /\ b.c = SetTimePoint(TheContainer, now)
            /\ \A peer \in CallPeers : GetRequestable(TheContainer, peer, now).c = b.c
    /\ \A peer \in CallPeers :
        LET r == DeletedPeerRun(TheContainer, FirstOfPeer(m_index, peer),
                                Cardinality(IdsOfPeer(m_index, peer)))
        IN  r.done /\ r.c = DeletedPeer(TheContainer, peer)
    /\ \A gtxid \in Gtxids :
        LET r == AlreadyHaveTxRun(TheContainer,
                     LowerBound(TxKeys(m_index), <<gtxid.m_hash, CANDIDATE_DELAYED, 0>>),
                     gtxid.m_hash, Cardinality(OfTxhash(m_index, gtxid.m_hash)))
        IN  r.done /\ r.c = AlreadyHaveTx(TheContainer, gtxid)
    /\ \A e \in Entries(m_index) : MakeCompletedFinishes(TheContainer, e.m_sequence)

\* One peer has announced two txhashes; one announcement is
\* CANDIDATE_DELAYED and due at time 0, the other is selectable with a
\* time later than 0: at now = 0 each loop of SetTimePoint makes one
\* iteration and the loop of DeletedPeer makes two.
C36_Witness ==
    \E peer \in Peers :
        /\ Cardinality(IdsOfPeer(m_index, peer)) = 2
        /\ ForwardVariant(TheContainer, 0) = 1
        /\ BackwardVariant(SetTimePointForward(TheContainer, 0), 0) = 1
        /\ ~ForwardRun(TheContainer, 0, 0).done
        /\ ~DeletedPeerRun(TheContainer, FirstOfPeer(m_index, peer), 1).done
        /\ DeletedPeerRun(TheContainer, FirstOfPeer(m_index, peer), 2).done

\* ----------------------------------------------------------------------
\* C37: when no further ReceivedInv arrives, now grows past every reqtime
\* and exptime, every peer keeps being polled with GetRequestable and
\* RequestedTx is called with a finite exptime for every gtxid returned,
\* every announcement is eventually deleted and Size() is 0 from then on,
\* without any response; and an announcement that was requested is never a
\* candidate again: REQUESTED stays REQUESTED or becomes COMPLETED or is
\* deleted, COMPLETED stays COMPLETED or is deleted.
\* ----------------------------------------------------------------------
C37_EventuallyEmpty ==
    /\ (<>[][~CallReceivedInv]_vars) => <>[](Size(m_index) = 0)
    /\ [][\A e \in Entries(m_index) : \A f \in Created(m_index', e.m_sequence) :
             /\ GetState(e) = REQUESTED => GetState(f) \in {REQUESTED, COMPLETED}
             /\ GetState(e) = COMPLETED => GetState(f) = COMPLETED]_vars

\* A txhash with two announcements: the first announcer was tried and its
\* request has expired without a response, the second one is being tried.
C37_Witness ==
    \E e \in Entries(m_index) : \E f \in Entries(m_index) :
        /\ e.m_txhash = f.m_txhash
        /\ GetState(e) = COMPLETED
        /\ GetState(f) = REQUESTED

\* How often peer_id occurs in the queue.
QueueCount(queue, peer_id) ==
    Cardinality({i \in 1..Len(queue) : queue[i] = peer_id})

\* ----------------------------------------------------------------------
\* C38: the queue holds exactly the registered peers we initiate to, each
\* once; and every MaybeRequestReconciliation that rotates the queue is for
\* a registered peer and divides the interval by a count of at least 1.
\* ----------------------------------------------------------------------
C38_QueueHoldsInitiators ==
    /\ \A peer_id \in NodeIds :
           QueueCount(m_queue, peer_id) =
               IF peer_id \in DOMAIN m_states /\ m_states[peer_id].m_we_initiate
               THEN 1 ELSE 0
    /\ \A peer_id \in NodeIds, current_time \in ReconTimes, garbage \in NextGarbage :
           LET r == MaybeRequestReconciliation(TheRecon, m_next_recon_request, peer_id,
                                               current_time, garbage)
           IN  r.rotated =>
                   /\ IsPeerRegistered(TheRecon, peer_id)
                   /\ WeInitiateToCount(m_states) >= 1
                   /\ ~r.divzero
                   /\ r.next = current_time * MicrosPerSecond
                                 + (RECON_REQUEST_INTERVAL \div WeInitiateToCount(m_states))

\* Two peers we initiate to; the one at the back of the queue has been
\* polled and its reconciliation requested, and the timer allows the next
\* rotation at a time of ReconTimes.
C38_Witness ==
    /\ Len(m_queue) = 2
    /\ m_states[m_queue[2]].m_phase = INIT_REQUESTED
    /\ m_states[m_queue[1]].m_phase = NONE
    /\ m_next_recon_request > 0
    /\ \E current_time \in ReconTimes :
           MaybeRequestReconciliation(TheRecon, m_next_recon_request, m_queue[1],
                                      current_time, 0).rotated

\* The phase of the round initiated by peer_id.
ThemPhase(rc, peer_id) == rc.states[peer_id].m_state_init_by_them.m_phase

\* We are the responder for the registered peer peer_id.
WeRespond(rc, peer_id) ==
    peer_id \in DOMAIN rc.states /\ ~rc.states[peer_id].m_we_initiate

\* ----------------------------------------------------------------------
\* C39: HandleReconciliationRequest changes something only for a registered
\* peer we respond to whose phase is NONE, and then the phase becomes
\* INIT_REQUESTED; RespondToReconciliationRequest returns true only for a
\* registered peer we respond to in the phase INIT_REQUESTED and not sooner
\* than RECON_RESPONSE_INTERVAL after m_last_init_recon_respond, and then
\* the phase becomes INIT_RESPONDED; when it returns false it changes
\* nothing; in the phase INIT_RESPONDED no response succeeds and no request
\* is accepted, and the phase stays INIT_RESPONDED while the peer stays
\* registered.
\* ----------------------------------------------------------------------
C39_RequestAnsweredOnce ==
    /\ [](\A peer_id \in NodeIds :
            /\ \A peer_recon_set_size \in SetSizes, peer_q \in PeerQs :
                   LET rc == HandleReconciliationRequest(TheRecon, peer_id,
                                                         peer_recon_set_size, peer_q)
                   IN  IF WeRespond(TheRecon, peer_id) /\ ThemPhase(TheRecon, peer_id) = NONE
                       THEN /\ ThemPhase(rc, peer_id) = INIT_REQUESTED
                            /\ rc.states[peer_id].m_state_init_by_them.m_remote_set_size
                                   = peer_recon_set_size
                            /\ \A o \in DOMAIN m_states \ {peer_id} :
                                   rc.states[o] = m_states[o]
                            /\ rc.salts = m_local_salts /\ rc.queue = m_queue
                       ELSE rc = TheRecon
            /\ \A current_time \in ReconTimes :
                   LET r == RespondToReconciliationRequest(TheRecon, peer_id, current_time)
                   IN  IF r.ret
                       THEN /\ WeRespond(TheRecon, peer_id)
                            /\ ThemPhase(TheRecon, peer_id) = INIT_REQUESTED
                            /\ current_time * MicrosPerSecond >=
                                   m_states[peer_id].m_state_init_by_them
                                       .m_last_init_recon_respond + RECON_RESPONSE_INTERVAL
                            /\ ThemPhase(r.rc, peer_id) = INIT_RESPONDED
                            /\ r.rc.states[peer_id].m_state_init_by_them
                                   .m_last_init_recon_respond
                                   = current_time * MicrosPerSecond
                            /\ \A t \in ReconTimes :
                                   ~RespondToReconciliationRequest(r.rc, peer_id, t).ret
                       ELSE r.rc = TheRecon)
    /\ [][\A peer_id \in DOMAIN m_states \cap DOMAIN m_states' :
             ThemPhase(TheRecon, peer_id) = INIT_RESPONDED
                 => m_states'[peer_id].m_state_init_by_them.m_phase = INIT_RESPONDED]_vars

\* One peer we respond to has been answered and the other one has a
\* request that is accepted and not answered yet.
C39_Witness ==
    \E peer_id \in DOMAIN m_states : \E other \in DOMAIN m_states :
        /\ ThemPhase(TheRecon, peer_id) = INIT_RESPONDED
        /\ m_states[peer_id].m_state_init_by_them.m_last_init_recon_respond > 0
        /\ ThemPhase(TheRecon, other) = INIT_REQUESTED

\* The allocations the caller holds that came from the pool.
PoolLive ==
    {l \in live : l.n = 1 /\ CalcRequiredChunkSizeBytes(l.T) = m_chunk_size_bytes}

\* The chunks on the free list.
FreeChunks == {m_free_chunks[i] : i \in 1..Len(m_free_chunks)}

\* The chunk at p is one of the floor(block_size / chunk_size) chunks of an
\* allocated block.
ChunkOfBlock(p) ==
    \E i \in 1..Len(m_allocated_blocks) :
        \E k \in 0..((m_block_size_bytes \div m_chunk_size_bytes) - 1) :
            p = m_allocated_blocks[i] + k * m_chunk_size_bytes

\* Every chunk handed out or on the free list is a chunk of a block, no
\* chunk is handed out twice, none is twice on the free list and none is
\* both handed out and free.
ChunksAreSound ==
    /\ \A p \in {l.p : l \in PoolLive} \cup FreeChunks : ChunkOfBlock(p)
    /\ \A l1 \in PoolLive : \A l2 \in PoolLive :
           l1 # l2 => \/ l1.p + m_chunk_size_bytes <= l2.p
                      \/ l2.p + m_chunk_size_bytes <= l1.p
    /\ \A i \in 1..Len(m_free_chunks) : \A j \in 1..Len(m_free_chunks) :
           i # j => m_free_chunks[i] # m_free_chunks[j]
    /\ \A l \in PoolLive : l.p \notin FreeChunks

\* ----------------------------------------------------------------------
\* C40: for every block size, smaller than the chunk size or no multiple
\* of it included, each chunk the pool hands out lies wholly inside one
\* allocated block, which holds floor(block_size / chunk_size) chunks, and
\* overlaps no other chunk handed out or on the free list.
\* ----------------------------------------------------------------------
C40_ChunksInsideBlocks == ChunksAreSound

\* C40 for the block sizes that hold a chunk at least: the chunks are
\* sound whenever the block size is not smaller than the chunk size.
C40_ChunksInsideBlocksThatHoldOne ==
    m_block_size_bytes >= m_chunk_size_bytes => ChunksAreSound

\* The block size is smaller than the chunk size: the block allocated has
\* no chunk, and the caller holds two chunks from the pool all the same.
C40_Witness ==
    /\ m_chunk_size_bytes # 0
    /\ m_block_size_bytes < m_chunk_size_bytes
    /\ Len(m_allocated_blocks) = 1
    /\ Cardinality(PoolLive) = 2
    /\ \A l \in PoolLive : ~ChunkOfBlock(l.p)

====
